---- MODULE Spec2Model ----
(***************************************************************************)
(* make-space-for-art: the App component (filter selection, facets, the    *)
(* clear-neighborhood effect, the table's row click) and the Map component *)
(* (overlap resolver, viewport effects), as a state machine of React       *)
(* renders: an event handler or an asynchronous completion updates state   *)
(* and marks the effects whose dependencies changed; Flush is one commit:  *)
(* it runs the marked effects in declaration order (Map's, then App's) on  *)
(* the rendered state and applies their queued updates.                    *)
(*                                                                         *)
(* Strings are sequences of character codes, so that toUpperCase and trim  *)
(* are computed.  An absent property and '' are both the empty sequence:   *)
(* every read in the source goes through `|| ''`, `filter(Boolean)` or a   *)
(* truthiness test, which do not tell them apart.                          *)
(* Coordinates are integers in units of 0.00001 degree; the coordinates    *)
(* used are even, so that the midpoints calculateBounds takes are exact.   *)
(***************************************************************************)
EXTENDS Integers, Sequences, FiniteSets, TLC

\* ------------------------------------------------------------ bounds
\* The fetched feature array is any order-preserving selection of at most
\* MaxFeatures of the features of Pool.
MaxFeatures == 3
MaxViewFeatures == 2

\* ------------------------------------------------------------ strings
S_Boston     == <<66, 111, 115, 116, 111, 110>>                \* "Boston"
S_bostonSp   == <<98, 111, 115, 116, 111, 110, 32>>            \* "boston "
S_Cambridge  == <<67, 97, 109, 98, 114, 105, 100, 103, 101>>   \* "Cambridge"
S_Watertown  == <<87, 97, 116, 101, 114, 116, 111, 119, 110>>   \* "Watertown"
S_Hingham    == <<72, 105, 110, 103, 104, 97, 109>>             \* "Hingham"
S_BOSTON     == <<66, 79, 83, 84, 79, 78>>                     \* 'BOSTON'
S_CAMBRIDGE  == <<67, 65, 77, 66, 82, 73, 68, 71, 69>>         \* 'CAMBRIDGE'
S_SOMERVILLE == <<83, 79, 77, 69, 82, 86, 73, 76, 76, 69>>     \* 'SOMERVILLE'
S_WATERTOWN  == <<87, 65, 84, 69, 82, 84, 79, 87, 78>>         \* 'WATERTOWN'
S_HINGHAM    == <<72, 73, 78, 71, 72, 65, 77>>                 \* 'HINGHAM'
S_SALEM      == <<83, 65, 76, 69, 77>>                         \* 'SALEM'
S_FIRST_HIGHLAND_MANAGEMENT ==
    <<70, 73, 82, 83, 84, 32, 72, 73, 71, 72, 76, 65, 78, 68, 32,
      77, 65, 78, 65, 71, 69, 77, 69, 78, 84>>       \* 'FIRST HIGHLAND MANAGEMENT'
S_Fenway     == <<70, 101, 110, 119, 97, 121>>                 \* "Fenway"
S_FENWAY     == <<70, 69, 78, 87, 65, 89>>                     \* "FENWAY"
S_Inman      == <<73, 110, 109, 97, 110>>                      \* "Inman"
S_production == <<112, 114, 111, 100, 117, 99, 116, 105, 111, 110>>
S_presentation ==
    <<112, 114, 101, 115, 101, 110, 116, 97, 116, 105, 111, 110>>
S_both       == <<98, 111, 116, 104>>                          \* 'both'
S_unknown    == <<117, 110, 107, 110, 111, 119, 110>>          \* 'unknown'
S_Production == <<80, 114, 111, 100, 117, 99, 116, 105, 111, 110>>
S_Empty      == << >>                                          \* ''

\* String.prototype.toUpperCase / toLowerCase on ASCII.
toUpperCase(s) ==
    [i \in 1..Len(s) |-> IF s[i] \in 97..122 THEN s[i] - 32 ELSE s[i]]

toLowerCase(s) ==
    [i \in 1..Len(s) |-> IF s[i] \in 65..90 THEN s[i] + 32 ELSE s[i]]

IsSpace(c) == c \in {9, 10, 11, 12, 13, 32}

\* String.prototype.trim: drops the white space at both ends.
RECURSIVE trim(_)
trim(s) ==
    IF s = << >> THEN s
    ELSE IF IsSpace(Head(s)) THEN trim(Tail(s))
    ELSE IF IsSpace(s[Len(s)]) THEN trim(SubSeq(s, 1, Len(s) - 1))
    ELSE s

\* String.prototype.includes.
includes(s, sub) ==
    \E i \in 0..(Len(s) - Len(sub)) : SubSeq(s, i + 1, i + Len(sub)) = sub

\* The order of Array.prototype.sort() on strings: by code units.
RECURSIVE StrLess(_, _)
StrLess(a, b) ==
    IF b = << >> THEN FALSE
    ELSE IF a = << >> THEN TRUE
    ELSE IF Head(a) # Head(b) THEN Head(a) < Head(b)
    ELSE StrLess(Tail(a), Tail(b))

\* [...new Set(xs)].sort(): the distinct elements of a set of strings, sorted.
RECURSIVE SortedSeq(_)
SortedSeq(S) ==
    IF S = {} THEN << >>
    ELSE LET m == CHOOSE x \in S : \A y \in S \ {x} : StrLess(x, y)
         IN  <<m>> \o SortedSeq(S \ {m})

Range(s) == {s[i] : i \in 1..Len(s)}

\* properties?.key, with undefined read as '' (both are falsy).
Prop(props, key) == IF key \in DOMAIN props THEN props[key] ELSE S_Empty

\* a || b || c on strings: the first non-empty one.
Or2(a, b) == IF a # S_Empty THEN a ELSE b

\* ------------------------------------------------------------ data
Null == 0          \* null, for a feature reference (features are 1..Len(Pool))

NullGeometry == [type |-> "null"]                   \* geometry: null
Point(lon, lat) == [type |-> "Point", coordinates |-> <<lon, lat>>]
Polygon(rings) == [type |-> "Polygon", coordinates |-> rings]
Box(x0, y0, x1, y1) ==      \* one closed rectangular ring
    <<  <<x0, y0>>, <<x1, y0>>, <<x1, y1>>, <<x0, y1>>, <<x0, y0>>  >>

\* The features the feature service can return, in its order.  A feature is
\* an object: it is identified by its position here, whatever its content.
\* 1, 2, 3 lie in a chain 0.00008 degree apart (1~2, 2~3, not 1~3); 3 and 4
\* share one coordinate; 5 has no geometry; 6 is a polygon far from the rest;
\* 7 has neither city, neighborhood nor type; 8 and 9 are a Watertown and a
\* Hingham space.
Pool ==
    << [properties |-> [city |-> S_Boston, neighborhood |-> S_Fenway,
                        type |-> S_Production],
        geometry |-> Point(2000, 2000)],
       [properties |-> [city |-> S_bostonSp, neighborhood |-> S_Inman,
                        Type |-> S_presentation],
        geometry |-> Point(2008, 2000)],
       [properties |-> [city |-> S_Cambridge, neighborhood |-> S_Fenway,
                        type |-> S_production \o <<32>> \o S_presentation],
        geometry |-> Point(2016, 2000)],
       [properties |-> [city |-> S_Cambridge, neighborhood |-> S_Inman],
        geometry |-> Point(2016, 2000)],
       [properties |-> [City |-> S_Cambridge, Neighborhood |-> S_Fenway,
                        type |-> S_Production],
        geometry |-> NullGeometry],
       [properties |-> [city |-> S_Boston, neighborhood |-> S_Inman,
                        type |-> S_presentation],
        geometry |-> Polygon(<<Box(41000, 400, 41010, 600)>>)],
       [properties |-> [name |-> S_Boston],
        geometry |-> Point(6000, 6000)],
       [properties |-> [city |-> S_Watertown, neighborhood |-> S_Inman,
                        name |-> S_Fenway],
        geometry |-> Point(51000, 1000)],
       [properties |-> [city |-> S_Hingham, neighborhood |-> S_Inman,
                        name |-> S_Fenway],
        geometry |-> Point(60000, 1000)] >>

FeatureIds == 1..Len(Pool)

\* Massachusetts.geojson: the town boundaries, keyed by `town`.
MassachusettsFeatures ==
    << [properties |-> [town |-> S_BOSTON],
        geometry |-> Polygon(<<Box(0, 0, 30000, 30000)>>)],
       [properties |-> [town |-> S_CAMBRIDGE],
        geometry |-> Polygon(<<Box(40000, 0, 44000, 4000)>>)],
       [properties |-> [town |-> S_WATERTOWN],
        geometry |-> Polygon(<<Box(50000, 0, 52000, 2000)>>)] >>

\* The neighborhood polygons each of the three services returns.
NeighborhoodFeatures(cityName) ==
    CASE cityName = "Boston" ->
           << [properties |-> [Name |-> S_FENWAY],
               geometry |-> Polygon(<<Box(1000, 1000, 3000, 3400)>>)] >>
      [] cityName = "Cambridge" ->
           << [properties |-> [NAME |-> S_Inman],
               geometry |-> Polygon(<<Box(40000, 0, 41000, 800)>>)],
              [properties |-> [neighborhood |-> S_Fenway],
               geometry |-> Polygon(<<Box(42000, 2000, 42400, 2200)>>)] >>
      [] OTHER -> << >>

\* ------------------------------------------------------------ Map.jsx helpers
\* extractCoordinates: Point gives its coordinate, Polygon every vertex of
\* every ring, MultiPolygon every vertex of every ring of every part.
RECURSIVE Flatten(_)
Flatten(ss) == IF ss = << >> THEN << >> ELSE Head(ss) \o Flatten(Tail(ss))

extractCoordinates(geometry) ==
    CASE geometry.type = "Point" -> <<geometry.coordinates>>
      [] geometry.type = "Polygon" -> Flatten(geometry.coordinates)
      [] geometry.type = "MultiPolygon" ->
           Flatten([i \in 1..Len(geometry.coordinates) |->
                       Flatten(geometry.coordinates[i])])
      [] OTHER -> << >>

RECURSIVE SumSeq(_)
SumSeq(s) == IF s = << >> THEN 0 ELSE Head(s) + SumSeq(Tail(s))

\* getMarkerCoordinates: the anchor of a feature; << >> stands for null.
getMarkerCoordinates(geometry) ==
    IF geometry = NullGeometry THEN << >>
    ELSE IF geometry.type = "Point"
      THEN IF Len(geometry.coordinates) >= 2 THEN geometry.coordinates ELSE << >>
    ELSE IF geometry.type \in {"Polygon", "MultiPolygon"}
      THEN LET coords == extractCoordinates(geometry)
               lons == [i \in 1..Len(coords) |-> coords[i][1]]
               lats == [i \in 1..Len(coords) |-> coords[i][2]]
           IN  IF Len(coords) > 0
                 THEN << SumSeq(lons) \div Len(lons), SumSeq(lats) \div Len(lats) >>
                 ELSE << >>
    ELSE << >>

Anchor(f) == getMarkerCoordinates(Pool[f].geometry)

MinOf(S) == CHOOSE x \in S : \A y \in S : x <= y
MaxOf(S) == CHOOSE x \in S : \A y \in S : y <= x
Max(a, b) == IF a >= b THEN a ELSE b
Abs(x) == IF x < 0 THEN -x ELSE x

\* calculateBounds with the thresholds compared with >= and <=.
calculateBoundsInclusive(coordinates) ==
    IF Len(coordinates) = 0 THEN << >>
    ELSE LET lons == {coordinates[i][1] : i \in 1..Len(coordinates)}
             lats == {coordinates[i][2] : i \in 1..Len(coordinates)}
             minLon == MinOf(lons)
             maxLon == MaxOf(lons)
             minLat == MinOf(lats)
             maxLat == MaxOf(lats)
             maxDiff == Max(maxLon - minLon, maxLat - minLat)
             z1 == IF maxDiff >= 20000 THEN 11 ELSE 12
             z2 == IF maxDiff >= 40000 THEN 10 ELSE z1
             z3 == IF maxDiff >= 80000 THEN 9 ELSE z2
             z4 == IF maxDiff <= 5000 THEN 13 ELSE z3
             z5 == IF maxDiff <= 2000 THEN 14 ELSE z4
         IN  [longitude |-> (minLon + maxLon) \div 2,
              latitude |-> (minLat + maxLat) \div 2,
              zoom |-> z5]

\* calculateBounds: the bounding-box center and a zoom from the larger span
\* (0.2, 0.4, 0.8, 0.05, 0.02 degree are 20000 ... 2000 units); << >> is null.
calculateBounds(coordinates) ==
    IF Len(coordinates) = 0 THEN << >>
    ELSE LET lons == {coordinates[i][1] : i \in 1..Len(coordinates)}
             lats == {coordinates[i][2] : i \in 1..Len(coordinates)}
             minLon == MinOf(lons)
             maxLon == MaxOf(lons)
             minLat == MinOf(lats)
             maxLat == MaxOf(lats)
             maxDiff == Max(maxLon - minLon, maxLat - minLat)
             z1 == IF maxDiff > 20000 THEN 11 ELSE 12
             z2 == IF maxDiff > 40000 THEN 10 ELSE z1
             z3 == IF maxDiff > 80000 THEN 9 ELSE z2
             z4 == IF maxDiff < 5000 THEN 13 ELSE z3
             z5 == IF maxDiff < 2000 THEN 14 ELSE z4
         IN  [longitude |-> (minLon + maxLon) \div 2,
              latitude |-> (minLat + maxLat) \div 2,
              zoom |-> z5]

\* areCoordinatesSame's default tolerance, 0.0001 degree.
Tolerance == 10

\* areCoordinatesSame with a difference equal to the tolerance accepted.
areCoordinatesSameInclusive(coords1, coords2) ==
    IF Len(coords1) < 2 \/ Len(coords2) < 2 THEN FALSE
    ELSE /\ Abs(coords1[1] - coords2[1]) <= Tolerance
         /\ Abs(coords1[2] - coords2[2]) <= Tolerance

areCoordinatesSame(coords1, coords2) ==
    IF Len(coords1) < 2 \/ Len(coords2) < 2 THEN FALSE
    ELSE /\ Abs(coords1[1] - coords2[1]) < Tolerance
         /\ Abs(coords1[2] - coords2[2]) < Tolerance

\* data.filter(f => coords && areCoordinatesSame(coords, clickedCoords)):
\* the features of `shown` at the coordinate `at`, in the order of `shown`.
Overlapping(shown, at) ==
    SelectSeq(shown, LAMBDA f : /\ Anchor(f) # << >>
                                /\ areCoordinatesSame(Anchor(f), at))

\* findIndex that reports the first position for every feature.
findIndexFirst(s, f) == IF Len(s) > 0 THEN 0 ELSE -1

\* findIndex(f => f === feature), 0-based; -1 when absent.
findIndex(s, f) ==
    IF \E i \in 1..Len(s) : s[i] = f
      THEN (CHOOSE i \in 1..Len(s) : s[i] = f /\ \A j \in 1..(i - 1) : s[j] # f) - 1
      ELSE -1

\* ------------------------------------------------------------ App helpers
\* loadData's exclusion filter on the fetched array.
LoadFilter(features) ==
    SelectSeq(features, LAMBDA f :
        LET props == Pool[f].properties
            cityUpper == trim(toUpperCase(Or2(Prop(props, "city"), Prop(props, "City"))))
            nameUpper == trim(toUpperCase(Or2(Prop(props, "name"), Prop(props, "Name"))))
        IN  /\ cityUpper # S_WATERTOWN
            /\ nameUpper # S_FIRST_HIGHLAND_MANAGEMENT
            /\ nameUpper # S_HINGHAM
            /\ nameUpper # S_SALEM)

\* getSpaceType without the case folding.
getSpaceTypeCaseSensitive(props) ==
    LET typeText == trim(Or2(Prop(props, "type"), Prop(props, "Type")))
    IN  IF includes(typeText, S_production) /\ includes(typeText, S_presentation)
          THEN "both"
        ELSE IF includes(typeText, S_production) THEN "production"
        ELSE IF includes(typeText, S_presentation) THEN "presentation"
        ELSE "unknown"

\* getSpaceType: the class of a feature from its free-text type.
getSpaceType(props) ==
    LET typeLower == trim(toLowerCase(Or2(Prop(props, "type"), Prop(props, "Type"))))
    IN  IF includes(typeLower, S_production) /\ includes(typeLower, S_presentation)
          THEN "both"
        ELSE IF includes(typeLower, S_production) THEN "production"
        ELSE IF includes(typeLower, S_presentation) THEN "presentation"
        ELSE "unknown"

\* The predicate with a feature that has no city passing every city filter.
PassesFiltersMissingCityPasses(f, city, nbhd, type) ==
    LET props == Pool[f].properties
        fCity == trim(Or2(Prop(props, "city"), Prop(props, "City")))
        fNbhd == trim(Or2(Prop(props, "neighborhood"), Prop(props, "Neighborhood")))
    IN  /\ ~(city # S_Empty /\ fCity # S_Empty /\ toUpperCase(fCity) # toUpperCase(city))
        /\ ~(nbhd # S_Empty /\ toUpperCase(fNbhd) # toUpperCase(nbhd))
        /\ ~(type # "" /\ getSpaceType(props) # type)

\* The predicate with the filters 'production' and 'presentation' letting
\* a space of both types pass.
PassesFiltersBothPassesEither(f, city, nbhd, type) ==
    LET props == Pool[f].properties
        fCity == trim(Or2(Prop(props, "city"), Prop(props, "City")))
        fNbhd == trim(Or2(Prop(props, "neighborhood"), Prop(props, "Neighborhood")))
    IN  /\ ~(city # S_Empty /\ toUpperCase(fCity) # toUpperCase(city))
        /\ ~(nbhd # S_Empty /\ toUpperCase(fNbhd) # toUpperCase(nbhd))
        /\ ~(type # "" /\ getSpaceType(props) # type
                       /\ ~(getSpaceType(props) = "both"
                              /\ type \in {"production", "presentation"}))

\* The predicate of the filteredData memo.
PassesFilters(f, city, nbhd, type) ==
    LET props == Pool[f].properties
        fCity == trim(Or2(Prop(props, "city"), Prop(props, "City")))
        fNbhd == trim(Or2(Prop(props, "neighborhood"), Prop(props, "Neighborhood")))
    IN  /\ ~(city # S_Empty /\ toUpperCase(fCity) # toUpperCase(city))
        /\ ~(nbhd # S_Empty /\ toUpperCase(fNbhd) # toUpperCase(nbhd))
        /\ ~(type # "" /\ getSpaceType(props) # type)

\* The filter losing the first of the features that pass.
applyFiltersDropsFirst(features, city, nbhd, type) ==
    LET passing == SelectSeq(features, LAMBDA f : PassesFilters(f, city, nbhd, type))
    IN  IF passing = << >> THEN passing ELSE Tail(passing)

applyFilters(features, city, nbhd, type) ==
    SelectSeq(features, LAMBDA f : PassesFilters(f, city, nbhd, type))

\* The cities memo.
citiesOf(features) ==
    SortedSeq({ c \in { Prop(Pool[f].properties, "city") : f \in Range(features) } :
                  /\ c # S_Empty
                  /\ trim(toUpperCase(c)) # S_WATERTOWN
                  /\ trim(toUpperCase(c)) # S_HINGHAM })

\* The neighborhoods memo offering nothing while no city is selected.
neighborhoodsOfNoneWithoutCity(features, city) ==
    LET inCity == IF city # S_Empty
                    THEN SelectSeq(features, LAMBDA f :
                           trim(toUpperCase(Prop(Pool[f].properties, "city")))
                             = trim(toUpperCase(city)))
                    ELSE << >>
    IN  SortedSeq({ n \in { Prop(Pool[f].properties, "neighborhood") : f \in Range(inCity) } :
                      n # S_Empty })

\* The neighborhoods memo.
neighborhoodsOf(features, city) ==
    LET inCity == IF city # S_Empty
                    THEN SelectSeq(features, LAMBDA f :
                           trim(toUpperCase(Prop(Pool[f].properties, "city")))
                             = trim(toUpperCase(city)))
                    ELSE features
    IN  SortedSeq({ n \in { Prop(Pool[f].properties, "neighborhood") : f \in Range(inCity) } :
                      n # S_Empty })

\* neighborhoodExists of the clear-neighborhood effect.
neighborhoodExists(available, nbhd) ==
    \E i \in 1..Len(available) :
        trim(toUpperCase(available[i])) = trim(toUpperCase(nbhd))

\* The options of the type <select>.
TypeOptions == {"", "presentation", "production", "both", "unknown"}

\* ------------------------------------------------------------ table sort
\* aValue === null || aValue === undefined || aValue === ''.
IsEmptyValue(v) == v = S_Empty

\* String(a).localeCompare(String(b), undefined, {numeric, sensitivity: 'base'})
\* on strings of letters and spaces: the case is ignored.
localeCompare(a, b) ==
    LET la == toLowerCase(a)
        lb == toLowerCase(b)
    IN  IF la = lb THEN 0 ELSE IF StrLess(la, lb) THEN -1 ELSE 1

\* The comparator with the direction applied to the rows without a value too.
compareValuesEmptyFollowsDirection(aValue, bValue, direction) ==
    LET comparison ==
            IF IsEmptyValue(aValue) /\ IsEmptyValue(bValue) THEN 0
            ELSE IF IsEmptyValue(aValue) THEN 1
            ELSE IF IsEmptyValue(bValue) THEN -1
            ELSE localeCompare(aValue, bValue)
    IN  IF direction = "asc" THEN comparison ELSE 0 - comparison

\* The comparator of the table sort on the two values of the column: rows
\* without a value go last, whatever the direction.
compareValues(aValue, bValue, direction) ==
    IF IsEmptyValue(aValue) /\ IsEmptyValue(bValue) THEN 0
    ELSE IF IsEmptyValue(aValue) THEN 1
    ELSE IF IsEmptyValue(bValue) THEN -1
    ELSE IF direction = "asc" THEN localeCompare(aValue, bValue)
    ELSE 0 - localeCompare(aValue, bValue)

\* a.properties?.[sortConfig.key] against b.properties?.[sortConfig.key].
compareRows(a, b, config) ==
    compareValues(Prop(Pool[a].properties, config.key),
                  Prop(Pool[b].properties, config.key), config.direction)

\* Array.prototype.sort is stable: a row is placed after the rows that do
\* not compare greater than it.
insertRow(sorted, x, config) ==
    LET n == Cardinality({ i \in 1..Len(sorted) : compareRows(sorted[i], x, config) <= 0 })
    IN  SubSeq(sorted, 1, n) \o <<x>> \o SubSeq(sorted, n + 1, Len(sorted))

RECURSIVE sortRows(_, _)
sortRows(rows, config) ==
    IF rows = << >> THEN << >>
    ELSE insertRow(sortRows(SubSeq(rows, 1, Len(rows) - 1), config),
                   rows[Len(rows)], config)

\* if (sortConfig.key) filtered = [...filtered].sort(...)
applySort(filtered, config) ==
    IF config.key # "" THEN sortRows(filtered, config) ELSE filtered

\* ------------------------------------------------------------ state
VARIABLES
    \* App
    data,                   \* the loaded features, in order (feature ids)
    loading,
    selectedCity,
    selectedNeighborhood,
    selectedType,
    selectedTableRow,       \* Map's selectedFeature prop; Null or a feature id
    sortConfig,             \* the table's sort: [key, direction], key "" is null
    \* Map
    viewState,              \* [longitude, latitude, zoom]
    selectedMarker,
    overlappingFeatures,
    selectedOverlapIndex,
    highlightedCities,      \* indices into MassachusettsFeatures; << >> is null
    massachusettsGeoJSON,   \* TRUE once the boundary file is stored
    bostonNeighborhoods,    \* TRUE once the city's neighborhood set is stored
    cambridgeNeighborhoods,
    somervilleNeighborhoods,
    mapboxToken,            \* "" is null (or undefined)
    mapError,               \* "" is null
    \* the asynchronous work in flight, and the commit still to run
    fetches,                \* request -> "pending" | "ok" | "failed"
    pending,                \* the effects whose dependencies changed
    \* a helper called on its own: [op, args, result]
    probe,
    \* history, read only by the properties
    lastEvent,              \* the last event handled: [op, f], f its feature
    clickRun                \* the marker click being cycled, see StartRun

vars == << data, loading, selectedCity, selectedNeighborhood, selectedType,
           selectedTableRow, sortConfig, viewState, selectedMarker, overlappingFeatures,
           selectedOverlapIndex, highlightedCities, massachusettsGeoJSON,
           bostonNeighborhoods, cambridgeNeighborhoods, somervilleNeighborhoods,
           mapboxToken, mapError, fetches, pending, probe, lastEvent, clickRun >>

tokenVars == << mapboxToken, mapError >>

appVars == << data, loading, selectedCity, selectedNeighborhood, selectedType >>
overlapVars == << selectedMarker, overlappingFeatures, selectedOverlapIndex >>
referenceVars == << highlightedCities, massachusettsGeoJSON, bostonNeighborhoods,
                    cambridgeNeighborhoods, somervilleNeighborhoods >>

NeighborhoodCities == {"Boston", "Cambridge", "Somerville"}
Requests == {"features", "geojson", "token"} \cup NeighborhoodCities

\* The arrays GET /api/features can answer with.
RECURSIVE Ascending(_)
Ascending(S) ==
    IF S = {} THEN << >> ELSE <<MinOf(S)>> \o Ascending(S \ {MinOf(S)})

\* The Boston and Cambridge features, and those of the two towns the load
\* is to leave out.
CommonFeatures == 1..7
ExcludedTownFeatures == {8, 9}

FeatureArrays ==
    { Ascending(S) : S \in { T \in SUBSET CommonFeatures : Cardinality(T) <= MaxFeatures } }

\* The arrays of the load sub-system: two Boston features and the two of
\* the towns left out.
LoadArrays ==
    { Ascending(S) : S \in { T \in SUBSET ({1, 2} \cup ExcludedTownFeatures) :
                               Cardinality(T) <= MaxFeatures } }

\* The arrays of the viewport sub-system: a Boston point, a Cambridge point,
\* a feature without geometry.
ViewPool == {1, 4, 5}

ViewArrays ==
    { Ascending(S) : S \in { T \in SUBSET ViewPool : Cardinality(T) <= MaxViewFeatures } }

\* The viewports a user's pan or zoom can leave (onMove).
MoveViews == { [longitude |-> 2100, latitude |-> 2100, zoom |-> 16] }

\* filteredData, the `data` prop of Map and MetricsPanel.
filteredData ==
    applySort(applyFilters(data, selectedCity, selectedNeighborhood, selectedType),
              sortConfig)

\* The columns of the table: the keys of the loaded features' properties.
allPropertyKeys == UNION { DOMAIN Pool[f].properties : f \in Range(data) }

\* MetricsPanel: the 'Total Spaces' metric, on its data prop (filteredData).
totalSpaces == Len(filteredData)

\* MetricsPanel: the 'Spaces in <city>' card, rendered when a city is
\* selected: data.filter(f => f.properties?.city === selectedCity).length.
SpacesInCity ==
    Len(SelectSeq(filteredData,
                  LAMBDA f : Prop(Pool[f].properties, "city") = selectedCity))

\* MetricsPanel: the 'Spaces in <neighborhood>' card, rendered when a
\* neighborhood is selected.
SpacesInNeighborhood ==
    Len(SelectSeq(filteredData,
                  LAMBDA f : Prop(Pool[f].properties, "neighborhood")
                                = selectedNeighborhood))

cities == citiesOf(data)

neighborhoods == neighborhoodsOf(data, selectedCity)

\* The dependency arrays with the highlight effect depending on
\* highlightedCities, the state it sets.
EffectsOfHighlightOnItself(changed) ==
    LET filtered == changed \cap {"data", "selectedCity", "selectedNeighborhood",
                                  "selectedType", "sortConfig"} # {}
        facet == changed \cap {"data", "selectedCity"} # {}
    IN  (IF filtered \/ "highlightedCities" \in changed THEN {"bounds"} ELSE {})
        \cup (IF filtered \/ changed \cap {"massachusettsGeoJSON",
                                           "highlightedCities"} # {}
                THEN {"highlight"} ELSE {})
        \cup (IF changed \cap {"selectedCity", "highlightedCities",
                               "selectedNeighborhood"} # {}
                THEN {"cityZoom"} ELSE {})
        \cup (IF changed \cap {"selectedNeighborhood", "selectedCity",
                               "neighborhoodData"} # {}
                THEN {"neighborhoodZoom"} ELSE {})
        \cup (IF filtered \/ "selectedFeature" \in changed THEN {"sync"} ELSE {})
        \cup (IF facet \/ changed \cap {"selectedCity", "selectedNeighborhood"} # {}
                THEN {"clearNeighborhood"} ELSE {})

\* The dependency arrays with the city zoom effect depending on
\* highlightedCities and the neighborhood alone, not on selectedCity.
EffectsOfCityZoomOnRegions(changed) ==
    LET filtered == changed \cap {"data", "selectedCity", "selectedNeighborhood",
                                  "selectedType", "sortConfig"} # {}
        facet == changed \cap {"data", "selectedCity"} # {}
    IN  (IF filtered \/ "highlightedCities" \in changed THEN {"bounds"} ELSE {})
        \cup (IF filtered \/ "massachusettsGeoJSON" \in changed
                THEN {"highlight"} ELSE {})
        \cup (IF changed \cap {"highlightedCities", "selectedNeighborhood"} # {}
                THEN {"cityZoom"} ELSE {})
        \cup (IF changed \cap {"selectedNeighborhood", "selectedCity",
                               "neighborhoodData"} # {}
                THEN {"neighborhoodZoom"} ELSE {})
        \cup (IF filtered \/ "selectedFeature" \in changed THEN {"sync"} ELSE {})
        \cup (IF facet \/ changed \cap {"selectedCity", "selectedNeighborhood"} # {}
                THEN {"clearNeighborhood"} ELSE {})

\* The dependency arrays: the effects to run after the state named in
\* `changed` has changed.  filteredData is recomputed (a new array) when data
\* or a filter changes, neighborhoods when data or the city changes.
EffectsOf(changed) ==
    LET filtered == changed \cap {"data", "selectedCity", "selectedNeighborhood",
                                  "selectedType", "sortConfig"} # {}
        facet == changed \cap {"data", "selectedCity"} # {}
    IN  (IF filtered \/ "highlightedCities" \in changed THEN {"bounds"} ELSE {})
        \cup (IF filtered \/ "massachusettsGeoJSON" \in changed
                THEN {"highlight"} ELSE {})
        \cup (IF changed \cap {"selectedCity", "highlightedCities",
                               "selectedNeighborhood"} # {}
                THEN {"cityZoom"} ELSE {})
        \cup (IF changed \cap {"selectedNeighborhood", "selectedCity",
                               "neighborhoodData"} # {}
                THEN {"neighborhoodZoom"} ELSE {})
        \cup (IF filtered \/ "selectedFeature" \in changed THEN {"sync"} ELSE {})
        \cup (IF facet \/ changed \cap {"selectedCity", "selectedNeighborhood"} # {}
                THEN {"clearNeighborhood"} ELSE {})

Settled == pending = {}

Event(op, f) == [op |-> op, f |-> f]

\* The record of a marker click on a stack of `size` features and of the
\* cycles made since: `index` and `feature` are the current index and the
\* selected feature once the click's effects have run.
NoRun == [f |-> Null, size |-> 0, cycles |-> 0, index |-> 0, feature |-> Null]

StartRun(f, size, feature) ==
    IF size > 1 THEN [f |-> f, size |-> size, cycles |-> 0, index |-> 0,
                      feature |-> feature]
    ELSE NoRun

\* No helper has been called on its own.
NoCall == [op |-> "none", args |-> << >>, result |-> FALSE]

Init ==
    /\ data = << >>
    /\ loading = TRUE
    /\ selectedCity = S_Empty
    /\ selectedNeighborhood = S_Empty
    /\ selectedType = ""
    /\ selectedTableRow = Null
    /\ sortConfig = [key |-> "", direction |-> "asc"]
    /\ viewState = [longitude |-> -7400600, latitude |-> 4071280, zoom |-> 12]
    /\ selectedMarker = Null
    /\ overlappingFeatures = << >>
    /\ selectedOverlapIndex = 0
    /\ highlightedCities = << >>
    /\ massachusettsGeoJSON = FALSE
    /\ bostonNeighborhoods = FALSE
    /\ cambridgeNeighborhoods = FALSE
    /\ somervilleNeighborhoods = FALSE
    /\ mapboxToken = ""
    /\ mapError = ""
    /\ fetches = [r \in Requests |-> "pending"]
    /\ pending = {}
    /\ probe = NoCall
    /\ lastEvent = Event("mount", Null)
    /\ clickRun = NoRun

\* ------------------------------------------------------------ Map effects
\* Each effect reads the rendered state (the unprimed variables).  The three
\* viewport effects and the sync effect queue setViewState(prev => ...): each
\* is given the viewport left by the updaters queued before it.

TownUpper(i) == trim(toUpperCase(Prop(MassachusettsFeatures[i].properties, "town")))

\* The bounds effect falling back on the anchors of all displayed features,
\* whatever their geometry.
BoundsEffectAnyGeometry(prev) ==
    LET fromPolygons ==
            Flatten([k \in 1..Len(highlightedCities) |->
                extractCoordinates(MassachusettsFeatures[highlightedCities[k]].geometry)])
        points == SelectSeq(filteredData, LAMBDA f : Anchor(f) # << >>)
        fromData == [k \in 1..Len(points) |-> Anchor(points[k])]
        allCoordinates == IF Len(fromPolygons) = 0 THEN fromData ELSE fromPolygons
    IN  IF Len(allCoordinates) > 0 THEN calculateBounds(allCoordinates) ELSE prev

\* The bounds effect preferring the data points to the highlighted polygons.
BoundsEffectPointsFirst(prev) ==
    LET fromPolygons ==
            Flatten([k \in 1..Len(highlightedCities) |->
                extractCoordinates(MassachusettsFeatures[highlightedCities[k]].geometry)])
        points == SelectSeq(filteredData, LAMBDA f : Pool[f].geometry.type = "Point")
        fromData == [k \in 1..Len(points) |-> Pool[points[k]].geometry.coordinates]
        allCoordinates == IF Len(fromData) = 0 THEN fromPolygons ELSE fromData
    IN  IF Len(allCoordinates) > 0 THEN calculateBounds(allCoordinates) ELSE prev

\* Effect [highlightedCities, data]: fit the highlighted polygons, or else the
\* data points.
BoundsEffect(prev) ==
    LET fromPolygons ==
            Flatten([k \in 1..Len(highlightedCities) |->
                extractCoordinates(MassachusettsFeatures[highlightedCities[k]].geometry)])
        points == SelectSeq(filteredData, LAMBDA f : Pool[f].geometry.type = "Point")
        fromData == [k \in 1..Len(points) |-> Pool[points[k]].geometry.coordinates]
        allCoordinates == IF Len(fromPolygons) = 0 THEN fromData ELSE fromPolygons
    IN  IF Len(allCoordinates) > 0 THEN calculateBounds(allCoordinates) ELSE prev

\* Effect [massachusettsGeoJSON, data]: the towns that match a city of the
\* data.  `set` tells whether setHighlightedCities is called at all.
HighlightEffect ==
    IF ~massachusettsGeoJSON \/ Len(filteredData) = 0
      THEN [set |-> FALSE, value |-> << >>]
      ELSE LET citiesFromData ==
                 { trim(toUpperCase(c)) :
                     c \in { x \in { Or2(Prop(Pool[f].properties, "city"),
                                         Prop(Pool[f].properties, "City")) :
                                     f \in Range(filteredData) } : x # S_Empty } }
               matchingFeatures ==
                 SelectSeq([i \in 1..Len(MassachusettsFeatures) |-> i], LAMBDA i :
                     /\ Prop(MassachusettsFeatures[i].properties, "town") # S_Empty
                     /\ TownUpper(i) # S_WATERTOWN
                     /\ TownUpper(i) \in citiesFromData)
           IN  IF citiesFromData = {} THEN [set |-> TRUE, value |-> << >>]
               ELSE [set |-> TRUE, value |-> matchingFeatures]

\* Effect [selectedCity, highlightedCities, selectedNeighborhood]: fit the
\* selected city's polygon, unless a neighborhood is selected.
CityZoomEffect(prev) ==
    IF selectedCity = S_Empty \/ highlightedCities = << >>
         \/ selectedNeighborhood # S_Empty
      THEN prev
      ELSE LET found == SelectSeq(highlightedCities, LAMBDA i :
                           /\ Prop(MassachusettsFeatures[i].properties, "town") # S_Empty
                           /\ TownUpper(i) = trim(toUpperCase(selectedCity)))
           IN  IF found = << >> THEN prev
               ELSE LET coords == extractCoordinates(MassachusettsFeatures[found[1]].geometry)
                    IN  IF Len(coords) > 0 THEN calculateBounds(coords) ELSE prev

\* The name of a neighborhood polygon: the first non-empty of six keys.
NeighborhoodName(props) ==
    Or2(Prop(props, "name"), Or2(Prop(props, "neighborhood"), Or2(Prop(props, "NAME"),
    Or2(Prop(props, "NEIGHBORHOOD"), Or2(Prop(props, "Neighborhood"), Prop(props, "Name"))))))

\* The neighborhood set the selected city reads; << >> when none is stored.
NeighborhoodData ==
    LET cityUpper == trim(toUpperCase(selectedCity))
    IN  IF cityUpper = S_BOSTON /\ bostonNeighborhoods THEN NeighborhoodFeatures("Boston")
        ELSE IF cityUpper = S_CAMBRIDGE /\ cambridgeNeighborhoods
          THEN NeighborhoodFeatures("Cambridge")
        ELSE IF cityUpper = S_SOMERVILLE /\ somervilleNeighborhoods
          THEN NeighborhoodFeatures("Somerville")
        ELSE << >>

\* The polygon of the selected neighborhood; << >> when it is not resolvable.
NeighborhoodPolygon ==
    SelectSeq(NeighborhoodData, LAMBDA p :
        /\ NeighborhoodName(p.properties) # S_Empty
        /\ trim(toUpperCase(NeighborhoodName(p.properties)))
             = trim(toUpperCase(selectedNeighborhood)))

\* zoom: Math.max(bounds.zoom, 14).
NeighborhoodZoomFloor(zoom) == Max(zoom, 14)

\* Effect [selectedNeighborhood, selectedCity, the three neighborhood sets]:
\* fit the selected neighborhood's polygon, at zoom 14 or closer.
NeighborhoodZoomEffect(prev) ==
    IF selectedNeighborhood = S_Empty \/ selectedCity = S_Empty THEN prev
    ELSE IF NeighborhoodPolygon = << >> THEN prev
    ELSE LET coords == extractCoordinates(NeighborhoodPolygon[1].geometry)
             bounds == calculateBounds(coords)
         IN  IF Len(coords) > 0
               THEN [bounds EXCEPT !.zoom = NeighborhoodZoomFloor(bounds.zoom)]
               ELSE prev

\* The pan at a fixed zoom of 14.
PanZoomFixed(prevZoom) == 14

\* zoom: Math.max(prev.zoom, 14).
PanZoom(prevZoom) == Max(prevZoom, 14)

\* The sync effect storing the result of findIndex as it is, -1 included.
SyncEffectRawIndex(prev) ==
    IF selectedTableRow # Null
      THEN LET coords == Anchor(selectedTableRow)
               overlapping == Overlapping(filteredData, coords)
           IN  [ selectedMarker |-> selectedTableRow,
                 overlappingFeatures |->
                     IF coords = << >> THEN overlappingFeatures
                     ELSE IF Len(overlapping) > 1 THEN overlapping ELSE << >>,
                 selectedOverlapIndex |->
                     IF coords = << >> THEN selectedOverlapIndex
                     ELSE IF Len(overlapping) > 1
                       THEN findIndex(overlapping, selectedTableRow)
                       ELSE 0,
                 viewState |->
                     IF coords # << >> /\ Len(coords) >= 2
                       THEN [longitude |-> coords[1], latitude |-> coords[2],
                             zoom |-> PanZoom(prev.zoom)]
                       ELSE prev ]
      ELSE [ selectedMarker |-> selectedMarker,
             overlappingFeatures |-> << >>,
             selectedOverlapIndex |-> 0,
             viewState |-> prev ]

\* Effect [selectedFeature, data]: follow the selectedFeature prop.
SyncEffect(prev) ==
    IF selectedTableRow # Null
      THEN LET coords == Anchor(selectedTableRow)
               overlapping == Overlapping(filteredData, coords)
               index == findIndex(overlapping, selectedTableRow)
           IN  [ selectedMarker |-> selectedTableRow,
                 overlappingFeatures |->
                     IF coords = << >> THEN overlappingFeatures
                     ELSE IF Len(overlapping) > 1 THEN overlapping ELSE << >>,
                 selectedOverlapIndex |->
                     IF coords = << >> THEN selectedOverlapIndex
                     ELSE IF Len(overlapping) > 1
                       THEN (IF index >= 0 THEN index ELSE 0)
                       ELSE 0,
                 viewState |->
                     IF coords # << >> /\ Len(coords) >= 2
                       THEN [longitude |-> coords[1], latitude |-> coords[2],
                             zoom |-> PanZoom(prev.zoom)]
                       ELSE prev ]
      ELSE [ selectedMarker |-> selectedMarker,
             overlappingFeatures |-> << >>,
             selectedOverlapIndex |-> 0,
             viewState |-> prev ]

\* ------------------------------------------------------------ App effect
\* The effect with the check made against the neighborhoods of every city.
ClearNeighborhoodEffectAnyCity ==
    /\ selectedCity # S_Empty
    /\ selectedNeighborhood # S_Empty
    /\ ~neighborhoodExists(neighborhoodsOf(data, S_Empty), selectedNeighborhood)

\* The effect without its call of setSelectedNeighborhood('').
ClearNeighborhoodEffectOff == FALSE

\* Effect [selectedCity, neighborhoods, selectedNeighborhood]: TRUE when it
\* calls setSelectedNeighborhood('').
ClearNeighborhoodEffect ==
    /\ selectedCity # S_Empty
    /\ selectedNeighborhood # S_Empty
    /\ ~neighborhoodExists(neighborhoods, selectedNeighborhood)

\* The view after the bounds effect, when it is pending.
ViewAfterBounds ==
    IF "bounds" \in pending THEN BoundsEffect(viewState) ELSE viewState

\* The view after the city zoom effect, when it is pending.
ViewAfterCityZoom(v1) ==
    IF "cityZoom" \in pending THEN CityZoomEffect(v1) ELSE v1

\* The view after the neighborhood zoom effect, when it is pending.
ViewAfterNeighborhoodZoom(v2) ==
    IF "neighborhoodZoom" \in pending THEN NeighborhoodZoomEffect(v2) ELSE v2

\* The selection and the view after the sync effect, when it is pending.
SelectionAfterSync(v3) ==
    IF "sync" \in pending THEN SyncEffect(v3)
    ELSE [ selectedMarker |-> selectedMarker,
           overlappingFeatures |-> overlappingFeatures,
           selectedOverlapIndex |-> selectedOverlapIndex,
           viewState |-> v3 ]

\* The highlight effect, when it is pending.
HighlightAfterCommit ==
    IF "highlight" \in pending THEN HighlightEffect
    ELSE [set |-> FALSE, value |-> << >>]

\* The updates of one commit, applied together.
ApplyCommit(sy, hl, clear) ==
    \* a new FeatureCollection object is a change; null over null is not
    LET hlChanged == hl.set /\ (hl.value # << >> \/ highlightedCities # << >>)
    IN  /\ viewState' = sy.viewState
        /\ selectedMarker' = sy.selectedMarker
        /\ overlappingFeatures' = sy.overlappingFeatures
        /\ selectedOverlapIndex' = sy.selectedOverlapIndex
        /\ highlightedCities' = IF hl.set THEN hl.value ELSE highlightedCities
        /\ selectedNeighborhood' = IF clear THEN S_Empty ELSE selectedNeighborhood
        /\ pending' = EffectsOf((IF hlChanged THEN {"highlightedCities"} ELSE {})
                                \cup (IF clear THEN {"selectedNeighborhood"} ELSE {}))
        /\ clickRun' = IF lastEvent.op = "markerClick" /\ clickRun.f # Null
                          THEN [clickRun EXCEPT !.index = sy.selectedOverlapIndex,
                                                !.feature = selectedTableRow]
                          ELSE clickRun

\* One commit: the pending effects run in declaration order, Map's before
\* App's, and their updates are applied together.
Flush ==
    /\ pending # {}
    /\ ApplyCommit(
           SelectionAfterSync(
               ViewAfterNeighborhoodZoom(ViewAfterCityZoom(ViewAfterBounds))),
           HighlightAfterCommit,
           "clearNeighborhood" \in pending /\ ClearNeighborhoodEffect)
    /\ UNCHANGED << data, loading, selectedCity, selectedType, selectedTableRow,
                    massachusettsGeoJSON, bostonNeighborhoods, cambridgeNeighborhoods,
                    somervilleNeighborhoods, fetches, lastEvent, sortConfig,
                    tokenVars, probe >>

\* ------------------------------------------------------------ completions
\* Events are handled between commits: React flushes the pending effects
\* before it handles the next event or completion.

\* loadData: fetchFeatureServiceData resolved with an array.
LoadDataOk(features) ==
    /\ Settled
    /\ fetches["features"] = "pending"
    /\ fetches' = [fetches EXCEPT !["features"] = "ok"]
    /\ data' = LoadFilter(features)
    /\ loading' = FALSE
    /\ pending' = EffectsOf({"data"})
    /\ sortConfig' = sortConfig
    /\ UNCHANGED tokenVars
    /\ probe' = probe
    /\ lastEvent' = Event("loadData", Null)
    /\ clickRun' = NoRun
    /\ UNCHANGED << selectedCity, selectedNeighborhood, selectedType, selectedTableRow,
                    viewState, overlapVars, referenceVars >>

\* The failed load without the setLoading(false) of the catch block.
LoadDataFailedKeepsLoading ==
    /\ Settled
    /\ fetches["features"] = "pending"
    /\ fetches' = [fetches EXCEPT !["features"] = "failed"]
    /\ pending' = {}
    /\ sortConfig' = sortConfig
    /\ UNCHANGED tokenVars
    /\ probe' = probe
    /\ lastEvent' = Event("loadDataFailed", Null)
    /\ clickRun' = clickRun
    /\ UNCHANGED << data, loading, selectedCity, selectedNeighborhood, selectedType,
                    selectedTableRow, viewState, overlapVars, referenceVars >>

\* loadData: fetchFeatureServiceData threw (non-200, not an array, network).
LoadDataFailed ==
    /\ Settled
    /\ fetches["features"] = "pending"
    /\ fetches' = [fetches EXCEPT !["features"] = "failed"]
    /\ loading' = FALSE
    /\ pending' = {}
    /\ sortConfig' = sortConfig
    /\ UNCHANGED tokenVars
    /\ probe' = probe
    /\ lastEvent' = Event("loadDataFailed", Null)
    /\ clickRun' = clickRun
    /\ UNCHANGED << data, selectedCity, selectedNeighborhood, selectedType,
                    selectedTableRow, viewState, overlapVars, referenceVars >>

\* loadGeoJSON: the boundary file is stored, or the failure is only logged.
LoadGeoJSON(ok) ==
    /\ Settled
    /\ fetches["geojson"] = "pending"
    /\ fetches' = [fetches EXCEPT !["geojson"] = IF ok THEN "ok" ELSE "failed"]
    /\ massachusettsGeoJSON' = ok
    /\ pending' = IF ok THEN EffectsOf({"massachusettsGeoJSON"}) ELSE {}
    /\ sortConfig' = sortConfig
    /\ UNCHANGED tokenVars
    /\ probe' = probe
    /\ lastEvent' = Event("loadGeoJSON", Null)
    /\ clickRun' = clickRun
    /\ UNCHANGED << appVars, selectedTableRow, viewState, overlapVars, highlightedCities,
                    bostonNeighborhoods, cambridgeNeighborhoods, somervilleNeighborhoods >>

\* The tokens: data.token of the answer of GET /api/mapbox-token (undefined
\* when the body has no token), and the build-time VITE_MAPBOX_ACCESS_TOKEN
\* (empty when the build has none).
ResponseTokens == {"", "server"}
BuildTokens == {"", "env"}

\* loadMapboxToken: the answer is ok and its body parses.
LoadTokenOk(token) ==
    /\ Settled
    /\ fetches["token"] = "pending"
    /\ fetches' = [fetches EXCEPT !["token"] = "ok"]
    /\ mapboxToken' = token
    /\ mapError' = mapError
    /\ pending' = {}
    /\ sortConfig' = sortConfig
    /\ probe' = probe
    /\ lastEvent' = Event("loadToken", Null)
    /\ clickRun' = clickRun
    /\ UNCHANGED << appVars, selectedTableRow, viewState, overlapVars, referenceVars >>

\* loadMapboxToken: the fetch threw or the answer is not ok; the catch block
\* falls back on the build-time token.
LoadTokenFailed(fallbackToken) ==
    /\ Settled
    /\ fetches["token"] = "pending"
    /\ fetches' = [fetches EXCEPT !["token"] = "failed"]
    /\ mapboxToken' = IF fallbackToken # "" THEN fallbackToken ELSE mapboxToken
    /\ mapError' = IF fallbackToken # "" THEN mapError ELSE "token not available"
    /\ pending' = {}
    /\ sortConfig' = sortConfig
    /\ probe' = probe
    /\ lastEvent' = Event("loadTokenFailed", Null)
    /\ clickRun' = clickRun
    /\ UNCHANGED << appVars, selectedTableRow, viewState, overlapVars, referenceVars >>

\* The map component's onError; the component is mounted only past the gate.
MapOnError ==
    /\ Settled
    /\ mapboxToken # ""
    /\ mapError = ""
    /\ mapError' = "map failed to load"
    /\ mapboxToken' = mapboxToken
    /\ pending' = {}
    /\ sortConfig' = sortConfig
    /\ probe' = probe
    /\ lastEvent' = Event("mapError", Null)
    /\ clickRun' = clickRun
    /\ UNCHANGED << appVars, selectedTableRow, viewState, overlapVars, referenceVars,
                    fetches >>

\* What Map returns: the "Loading Map..." placeholder while there is no
\* token, else the map, under the error overlay when mapError is set.
LoadingPlaceholderShown == mapboxToken = ""
MapRendered == mapboxToken # ""
ErrorOverlayShown == mapboxToken # "" /\ mapError # ""

\* loadNeighborhoods without the catch on each fetch: one rejection rejects
\* Promise.all and no set is stored.
NeighborhoodFetchSettlesNoCatch(c, ok) ==
    /\ Settled
    /\ fetches[c] = "pending"
    /\ fetches' = [fetches EXCEPT ![c] = IF ok THEN "ok" ELSE "failed"]
    /\ LET all == \A d \in NeighborhoodCities : fetches'[d] = "ok"
           stored(d) == all
       IN  /\ bostonNeighborhoods' = stored("Boston")
           /\ cambridgeNeighborhoods' = stored("Cambridge")
           /\ somervilleNeighborhoods' = stored("Somerville")
           /\ pending' = IF \E d \in NeighborhoodCities : stored(d)
                           THEN EffectsOf({"neighborhoodData"}) ELSE {}
    /\ sortConfig' = sortConfig
    /\ UNCHANGED tokenVars
    /\ probe' = probe
    /\ lastEvent' = Event("loadNeighborhoods", Null)
    /\ clickRun' = clickRun
    /\ UNCHANGED << appVars, selectedTableRow, viewState, overlapVars, highlightedCities,
                    massachusettsGeoJSON >>

\* loadNeighborhoods: one of the three fetches settles.  The await on
\* Promise.all resumes when all three have settled, and only then stores the
\* sets that were fetched.
NeighborhoodFetchSettles(c, ok) ==
    /\ Settled
    /\ fetches[c] = "pending"
    /\ fetches' = [fetches EXCEPT ![c] = IF ok THEN "ok" ELSE "failed"]
    /\ LET all == \A d \in NeighborhoodCities : fetches'[d] # "pending"
           stored(d) == all /\ fetches'[d] = "ok"
       IN  /\ bostonNeighborhoods' = stored("Boston")
           /\ cambridgeNeighborhoods' = stored("Cambridge")
           /\ somervilleNeighborhoods' = stored("Somerville")
           /\ pending' = IF \E d \in NeighborhoodCities : stored(d)
                           THEN EffectsOf({"neighborhoodData"}) ELSE {}
    /\ sortConfig' = sortConfig
    /\ UNCHANGED tokenVars
    /\ probe' = probe
    /\ lastEvent' = Event("loadNeighborhoods", Null)
    /\ clickRun' = clickRun
    /\ UNCHANGED << appVars, selectedTableRow, viewState, overlapVars, highlightedCities,
                    massachusettsGeoJSON >>

\* ------------------------------------------------------------ user events
\* MetricsPanel's selects: onChange fires with an option other than the value.
SelectCity(c) ==
    /\ Settled
    /\ c \in Range(cities) \cup {S_Empty}
    /\ c # selectedCity
    /\ selectedCity' = c
    /\ pending' = EffectsOf({"selectedCity"})
    /\ sortConfig' = sortConfig
    /\ UNCHANGED tokenVars
    /\ probe' = probe
    /\ lastEvent' = Event("selectCity", Null)
    /\ clickRun' = NoRun
    /\ UNCHANGED << data, loading, selectedNeighborhood, selectedType, selectedTableRow,
                    viewState, overlapVars, referenceVars, fetches >>

SelectNeighborhood(n) ==
    /\ Settled
    /\ n \in Range(neighborhoods) \cup {S_Empty}
    /\ n # selectedNeighborhood
    /\ selectedNeighborhood' = n
    /\ pending' = EffectsOf({"selectedNeighborhood"})
    /\ sortConfig' = sortConfig
    /\ UNCHANGED tokenVars
    /\ probe' = probe
    /\ lastEvent' = Event("selectNeighborhood", Null)
    /\ clickRun' = NoRun
    /\ UNCHANGED << data, loading, selectedCity, selectedType, selectedTableRow,
                    viewState, overlapVars, referenceVars, fetches >>

SelectType(t) ==
    /\ Settled
    /\ t \in TypeOptions
    /\ t # selectedType
    /\ selectedType' = t
    /\ pending' = EffectsOf({"selectedType"})
    /\ sortConfig' = sortConfig
    /\ UNCHANGED tokenVars
    /\ probe' = probe
    /\ lastEvent' = Event("selectType", Null)
    /\ clickRun' = NoRun
    /\ UNCHANGED << data, loading, selectedCity, selectedNeighborhood, selectedTableRow,
                    viewState, overlapVars, referenceVars, fetches >>

\* handleRowClick: a row of the table (the displayed features) is clicked.
RowClick(f) ==
    /\ Settled
    /\ f \in Range(filteredData)
    /\ selectedTableRow' = f
    /\ pending' = IF f # selectedTableRow THEN EffectsOf({"selectedFeature"}) ELSE {}
    /\ sortConfig' = sortConfig
    /\ UNCHANGED tokenVars
    /\ probe' = probe
    /\ lastEvent' = Event("rowClick", f)
    /\ clickRun' = NoRun
    /\ UNCHANGED << appVars, viewState, overlapVars, referenceVars, fetches >>

\* handleMarkerClick selecting the clicked feature, at its own position in
\* the group.
handleMarkerClickSelectsClicked(f) ==
    /\ Settled
    /\ f \in Range(filteredData)
    /\ Anchor(f) # << >>
    /\ LET overlapping == Overlapping(filteredData, Anchor(f))
       IN  /\ overlappingFeatures' = IF Len(overlapping) > 1 THEN overlapping ELSE << >>
           /\ selectedOverlapIndex' =
                 IF Len(overlapping) > 1 THEN findIndex(overlapping, f) ELSE 0
           /\ selectedMarker' = f
           /\ selectedTableRow' = f
           /\ pending' = IF f # selectedTableRow
                           THEN EffectsOf({"selectedFeature"}) ELSE {}
    /\ sortConfig' = sortConfig
    /\ UNCHANGED tokenVars
    /\ probe' = probe
    /\ lastEvent' = Event("markerClick", f)
    /\ clickRun' = StartRun(f, Len(Overlapping(filteredData, Anchor(f))), f)
    /\ UNCHANGED << appVars, viewState, referenceVars, fetches >>

\* handleMarkerClick: the marker of a displayed feature with an anchor.
handleMarkerClick(f) ==
    /\ Settled
    /\ f \in Range(filteredData)
    /\ Anchor(f) # << >>
    /\ LET overlapping == Overlapping(filteredData, Anchor(f))
           chosen == IF Len(overlapping) > 1 THEN overlapping[1] ELSE f
       IN  /\ overlappingFeatures' = IF Len(overlapping) > 1 THEN overlapping ELSE << >>
           /\ selectedOverlapIndex' = 0
           /\ selectedMarker' = chosen
           /\ selectedTableRow' = chosen
           /\ pending' = IF chosen # selectedTableRow
                           THEN EffectsOf({"selectedFeature"}) ELSE {}
    /\ sortConfig' = sortConfig
    /\ UNCHANGED tokenVars
    /\ probe' = probe
    /\ lastEvent' = Event("markerClick", f)
    /\ clickRun' = StartRun(f, Len(Overlapping(filteredData, Anchor(f))),
                                (Overlapping(filteredData, Anchor(f)))[1])
    /\ UNCHANGED << appVars, viewState, referenceVars, fetches >>

\* The popup is rendered for selectedFeature || selectedMarker when it has an
\* anchor.
PopupFeature == IF selectedTableRow # Null THEN selectedTableRow ELSE selectedMarker

PopupShown == PopupFeature # Null /\ Anchor(PopupFeature) # << >>

\* The feature whose properties the popup displays (currentFeature).
CurrentFeature ==
    LET featuresToShow == IF Len(overlappingFeatures) > 1 THEN overlappingFeatures
                          ELSE <<PopupFeature>>
    IN  IF selectedOverlapIndex < Len(featuresToShow)
          THEN featuresToShow[selectedOverlapIndex + 1]
          ELSE PopupFeature

\* The next button without the wrap to 0: it stays on the last feature.
CycleNextNoWrap ==
    /\ Settled
    /\ PopupShown
    /\ Len(overlappingFeatures) > 1
    /\ LET newIndex == IF selectedOverlapIndex + 1 < Len(overlappingFeatures)
                         THEN selectedOverlapIndex + 1 ELSE selectedOverlapIndex
           next == overlappingFeatures[newIndex + 1]
       IN  /\ selectedOverlapIndex' = newIndex
           /\ selectedMarker' = next
           /\ selectedTableRow' = next
           /\ pending' = IF next # selectedTableRow
                           THEN EffectsOf({"selectedFeature"}) ELSE {}
    /\ sortConfig' = sortConfig
    /\ UNCHANGED tokenVars
    /\ probe' = probe
    /\ lastEvent' = Event("cycleNext", Null)
    /\ clickRun' = IF clickRun.f # Null /\ clickRun.cycles < clickRun.size
                      THEN [clickRun EXCEPT !.cycles = @ + 1] ELSE NoRun
    /\ UNCHANGED << appVars, viewState, overlappingFeatures, referenceVars, fetches >>

\* The popup's next button, rendered when the group has several features.
CycleNext ==
    /\ Settled
    /\ PopupShown
    /\ Len(overlappingFeatures) > 1
    /\ LET newIndex == (selectedOverlapIndex + 1) % Len(overlappingFeatures)
           next == overlappingFeatures[newIndex + 1]
       IN  /\ selectedOverlapIndex' = newIndex
           /\ selectedMarker' = next
           /\ selectedTableRow' = next
           /\ pending' = IF next # selectedTableRow
                           THEN EffectsOf({"selectedFeature"}) ELSE {}
    /\ sortConfig' = sortConfig
    /\ UNCHANGED tokenVars
    /\ probe' = probe
    /\ lastEvent' = Event("cycleNext", Null)
    /\ clickRun' = IF clickRun.f # Null /\ clickRun.cycles < clickRun.size
                      THEN [clickRun EXCEPT !.cycles = @ + 1] ELSE NoRun
    /\ UNCHANGED << appVars, viewState, overlappingFeatures, referenceVars, fetches >>

\* onClose without its call of onMarkerSelect(null).
ClosePopupKeepsHostSelection ==
    /\ Settled
    /\ PopupShown
    /\ selectedMarker' = Null
    /\ overlappingFeatures' = << >>
    /\ selectedOverlapIndex' = 0
    /\ pending' = {}
    /\ sortConfig' = sortConfig
    /\ UNCHANGED tokenVars
    /\ probe' = probe
    /\ lastEvent' = Event("closePopup", Null)
    /\ clickRun' = NoRun
    /\ UNCHANGED << appVars, selectedTableRow, viewState, referenceVars, fetches >>

\* The popup's onClose.
ClosePopup ==
    /\ Settled
    /\ PopupShown
    /\ selectedMarker' = Null
    /\ overlappingFeatures' = << >>
    /\ selectedOverlapIndex' = 0
    /\ selectedTableRow' = Null
    /\ pending' = IF selectedTableRow # Null THEN EffectsOf({"selectedFeature"}) ELSE {}
    /\ sortConfig' = sortConfig
    /\ UNCHANGED tokenVars
    /\ probe' = probe
    /\ lastEvent' = Event("closePopup", Null)
    /\ clickRun' = NoRun
    /\ UNCHANGED << appVars, viewState, referenceVars, fetches >>

\* The map's onMove: the user pans or zooms.
MapMove(v) ==
    /\ Settled
    /\ v # viewState
    /\ viewState' = v
    /\ pending' = {}
    /\ sortConfig' = sortConfig
    /\ UNCHANGED tokenVars
    /\ probe' = probe
    /\ lastEvent' = Event("move", Null)
    /\ clickRun' = clickRun
    /\ UNCHANGED << appVars, selectedTableRow, overlapVars, referenceVars, fetches >>

\* handleSort with the sort applied to the loaded array itself, not to a copy.
handleSortInPlace(key) ==
    LET config == IF sortConfig.key = key
                    THEN [key |-> key,
                          direction |-> IF sortConfig.direction = "asc"
                                          THEN "desc" ELSE "asc"]
                    ELSE [key |-> key, direction |-> "asc"]
    IN  /\ Settled
        /\ sortConfig' = config
        /\ data' = sortRows(data, config)
        /\ pending' = EffectsOf({"sortConfig", "data"})
        /\ UNCHANGED tokenVars
        /\ probe' = probe
        /\ lastEvent' = Event("sort", Null)
        /\ clickRun' = NoRun
        /\ UNCHANGED << loading, selectedCity, selectedNeighborhood, selectedType,
                        selectedTableRow, viewState, overlapVars, referenceVars,
                        fetches >>

\* handleSort: a click on a column header of the table.
handleSort(key) ==
    /\ Settled
    /\ sortConfig' = IF sortConfig.key = key
                       THEN [key |-> key,
                             direction |-> IF sortConfig.direction = "asc"
                                             THEN "desc" ELSE "asc"]
                       ELSE [key |-> key, direction |-> "asc"]
    /\ pending' = EffectsOf({"sortConfig"})
    /\ UNCHANGED tokenVars
    /\ probe' = probe
    /\ lastEvent' = Event("sort", Null)
    /\ clickRun' = NoRun
    /\ UNCHANGED << appVars, selectedTableRow, viewState, overlapVars,
                    referenceVars, fetches >>

\* The events of the filter panel and the feature load.
FilterEvents ==
    \/ \E features \in FeatureArrays : LoadDataOk(features)
    \/ LoadDataFailed
    \/ \E c \in Range(cities) \cup {S_Empty} : SelectCity(c)
    \/ \E n \in Range(neighborhoods) \cup {S_Empty} : SelectNeighborhood(n)
    \/ \E t \in TypeOptions : SelectType(t)

\* The events of the selection: table rows, markers, the popup.
SelectionEvents ==
    \/ \E f \in FeatureIds : RowClick(f)
    \/ \E f \in FeatureIds : handleMarkerClick(f)
    \/ CycleNext
    \/ ClosePopup

\* The completions of the reference fetches.
ReferenceEvents ==
    \/ \E ok \in BOOLEAN : LoadGeoJSON(ok)
    \/ \E c \in NeighborhoodCities, ok \in BOOLEAN : NeighborhoodFetchSettles(c, ok)

\* The whole system's next-state relation.
Next == Flush \/ FilterEvents \/ SelectionEvents \/ ReferenceEvents
             \/ \E v \in MoveViews : MapMove(v)
             \/ \E key \in allPropertyKeys : handleSort(key)
             \/ \E token \in ResponseTokens : LoadTokenOk(token)
             \/ \E fallbackToken \in BuildTokens : LoadTokenFailed(fallbackToken)
             \/ MapOnError

\* The states of all events together are too many to enumerate, so the
\* properties are checked under sub-systems, each leaving out events that
\* neither read nor write the state its properties are about.

\* The filter panel alone: the load and the three selects.
NextFilter == Flush \/ FilterEvents

SpecFilter == Init /\ [][NextFilter]_vars

\* Selection: the load, the city and neighborhood selects (which change the
\* displayed data), rows, markers, the popup and the user's pans.  No
\* reference data arrives, so highlightedCities stays null.
NextOverlap ==
    \/ Flush
    \/ \E features \in FeatureArrays : LoadDataOk(features)
    \/ \E c \in Range(cities) \cup {S_Empty} : SelectCity(c)
    \/ \E n \in Range(neighborhoods) \cup {S_Empty} : SelectNeighborhood(n)
    \/ SelectionEvents
    \/ \E v \in MoveViews : MapMove(v)

SpecOverlap == Init /\ [][NextOverlap]_vars

\* The viewport: every reference fetch, the city and neighborhood selects,
\* a selection made from the table, on arrays of at most MaxViewFeatures
\* of the features of ViewPool.
NextViewport ==
    \/ Flush
    \/ \E features \in ViewArrays : LoadDataOk(features)
    \/ LoadDataFailed
    \/ \E c \in Range(cities) \cup {S_Empty} : SelectCity(c)
    \/ \E n \in Range(neighborhoods) \cup {S_Empty} : SelectNeighborhood(n)
    \/ \E f \in FeatureIds : RowClick(f)
    \/ ClosePopup
    \/ ReferenceEvents
    \/ \E v \in MoveViews : MapMove(v)

SpecViewport == Init /\ [][NextViewport]_vars

\* The regions: the filter panel (with two of the type options), the
\* boundary file and the user's pans.  No neighborhood set arrives, so no
\* neighborhood polygon resolves.
RegionTypes == {"", "unknown"}

NextRegions ==
    \/ Flush
    \/ \E features \in FeatureArrays : LoadDataOk(features)
    \/ \E c \in Range(cities) \cup {S_Empty} : SelectCity(c)
    \/ \E n \in Range(neighborhoods) \cup {S_Empty} : SelectNeighborhood(n)
    \/ \E t \in RegionTypes : SelectType(t)
    \/ \E ok \in BOOLEAN : LoadGeoJSON(ok)
    \/ \E v \in MoveViews : MapMove(v)

SpecRegions == Init /\ [][NextRegions]_vars

\* The table: the load, the city and neighborhood selects and the column
\* headers.
NextTable ==
    \/ Flush
    \/ \E features \in FeatureArrays : LoadDataOk(features)
    \/ \E c \in Range(cities) \cup {S_Empty} : SelectCity(c)
    \/ \E n \in Range(neighborhoods) \cup {S_Empty} : SelectNeighborhood(n)
    \/ \E key \in allPropertyKeys : handleSort(key)

SpecTable == Init /\ [][NextTable]_vars

\* The feature store under every user action: the load (or its failure) of
\* an array of at most MaxViewFeatures of the features of StorePool, the
\* three selects, rows, markers, the popup and the column headers.
StorePool == {1, 3, 4}

StoreArrays ==
    { Ascending(S) : S \in { T \in SUBSET StorePool : Cardinality(T) <= MaxViewFeatures } }

NextStore ==
    \/ Flush
    \/ \E features \in StoreArrays : LoadDataOk(features)
    \/ LoadDataFailed
    \/ \E c \in Range(cities) \cup {S_Empty} : SelectCity(c)
    \/ \E n \in Range(neighborhoods) \cup {S_Empty} : SelectNeighborhood(n)
    \/ \E t \in RegionTypes : SelectType(t)
    \/ SelectionEvents
    \/ \E key \in allPropertyKeys : handleSort(key)

SpecStore == Init /\ [][NextStore]_vars

\* The token: its fetch and the map's errors, next to the feature load and
\* the city select.
NextToken ==
    \/ Flush
    \/ \E features \in StoreArrays : LoadDataOk(features)
    \/ LoadDataFailed
    \/ \E c \in Range(cities) \cup {S_Empty} : SelectCity(c)
    \/ \E token \in ResponseTokens : LoadTokenOk(token)
    \/ \E fallbackToken \in BuildTokens : LoadTokenFailed(fallbackToken)
    \/ MapOnError

SpecToken == Init /\ [][NextToken]_vars

\* The helpers of Map called on their own, on coordinate lists of at most
\* MaxCoordinates coordinates around the thresholds of calculateBounds
\* (ProbeLons leaves spans of 0, 1998, 2000, ... 80002 units, that is 0 to
\* 0.80002 degree) and on pairs of coordinates around the tolerance of
\* areCoordinatesSame, a missing coordinate (null) and a half one included.
MaxCoordinates == 2

ProbeLons == {0, 1998, 2000, 4998, 5000, 20000, 20002, 40000, 40002, 80000, 80002}
ProbeLats == {0, 40002}

ProbeCoordinates == { <<lon, lat>> : lon \in ProbeLons, lat \in ProbeLats }

NearCoordinates ==
    { <<lon, lat>> : lon \in {99991, 100000, 100005, 100009, 100010, 100100},
                     lat \in {200000, 200004, 200010} }
      \cup { << >>, <<100000>> }

\* The helpers keep no state, so a behaviour makes one call.
CallCalculateBounds(coordinates) ==
    /\ probe = NoCall
    /\ probe' = [op |-> "calculateBounds", args |-> <<coordinates>>,
                 result |-> calculateBounds(coordinates)]
    /\ UNCHANGED << appVars, selectedTableRow, sortConfig, viewState, overlapVars,
                    referenceVars, tokenVars, fetches, pending, lastEvent, clickRun >>

CallAreCoordinatesSame(coords1, coords2) ==
    /\ probe = NoCall
    /\ probe' = [op |-> "areCoordinatesSame", args |-> <<coords1, coords2>>,
                 result |-> areCoordinatesSame(coords1, coords2)]
    /\ UNCHANGED << appVars, selectedTableRow, sortConfig, viewState, overlapVars,
                    referenceVars, tokenVars, fetches, pending, lastEvent, clickRun >>

NextHelpers ==
    \/ \E n \in 0..MaxCoordinates :
          \E coordinates \in [1..n -> ProbeCoordinates] : CallCalculateBounds(coordinates)
    \/ \E coords1, coords2 \in NearCoordinates : CallAreCoordinatesSame(coords1, coords2)

SpecHelpers == Init /\ [][NextHelpers]_vars

\* The load: arrays with Watertown and Hingham features, and the filter
\* panel.
NextLoad ==
    \/ Flush
    \/ \E features \in LoadArrays : LoadDataOk(features)
    \/ LoadDataFailed
    \/ \E c \in Range(cities) \cup {S_Empty} : SelectCity(c)
    \/ \E n \in Range(neighborhoods) \cup {S_Empty} : SelectNeighborhood(n)
    \/ \E t \in TypeOptions : SelectType(t)

SpecLoad == Init /\ [][NextLoad]_vars

\* The cascade of commits: the load (or its failure) of an array of at most
\* MaxViewFeatures of the features of StorePool, the three selects, rows,
\* markers, the popup and the boundary file, whose arrival makes the
\* highlight effect act.
NextCascade ==
    \/ Flush
    \/ \E features \in StoreArrays : LoadDataOk(features)
    \/ LoadDataFailed
    \/ \E c \in Range(cities) \cup {S_Empty} : SelectCity(c)
    \/ \E n \in Range(neighborhoods) \cup {S_Empty} : SelectNeighborhood(n)
    \/ \E t \in RegionTypes : SelectType(t)
    \/ SelectionEvents
    \/ \E ok \in BOOLEAN : LoadGeoJSON(ok)

SpecCascade == Init /\ [][NextCascade]_vars

\* ================================================================ properties

\* The selected neighborhood is one the selected city offers (or none).
NeighborhoodOffered ==
    selectedNeighborhood # S_Empty
        => neighborhoodExists(neighborhoods, selectedNeighborhood)

\* A city has just been selected that does not offer the selected neighborhood.
C1_Stale == lastEvent.op = "selectCity" /\ ~NeighborhoodOffered

\* C1: when a city is selected whose neighborhoods (derived from the loaded
\* data) do not include the selected neighborhood, a commit is pending, the
\* next step is that commit (no event comes first) and it resets the
\* selected neighborhood to ''; and no commit sets a neighborhood, so the
\* effects settle on ''.
C1_CityChangeResetsNeighborhood ==
    [][ /\ C1_Stale => /\ pending # {}
                        /\ lastEvent' = lastEvent
                        /\ selectedNeighborhood' = S_Empty
        /\ (~Settled /\ selectedNeighborhood = S_Empty)
              => selectedNeighborhood' = S_Empty ]_vars

C1_Witness == C1_Stale /\ pending # {} /\ selectedCity # S_Empty

\* C2 as stated: in every reachable state a non-empty selected neighborhood
\* belongs to the neighborhoods derived from the data and the selected city,
\* so that filteredData is never computed from a pair that violates this.
C2_NeighborhoodAlwaysOffered == NeighborhoodOffered

\* C2, amended: in every state in which the effects have settled, a
\* non-empty selected neighborhood belongs to the neighborhoods derived
\* from the data and the selected city.
C2_NeighborhoodOfferedWhenSettled == Settled => NeighborhoodOffered

C2_Witness ==
    /\ Settled
    /\ selectedCity # S_Empty
    /\ selectedNeighborhood # S_Empty
    /\ lastEvent.op = "selectCity"

\* The displayed features whose anchor is within the tolerance of the anchor
\* of f on both axes, in dataset order.
Stack(f) ==
    SelectSeq(filteredData, LAMBDA g :
        /\ Anchor(g) # << >>
        /\ Abs(Anchor(g)[1] - Anchor(f)[1]) < Tolerance
        /\ Abs(Anchor(g)[2] - Anchor(f)[2]) < Tolerance)

\* The last event was a click on a marker that shares its anchor.
C3_Clicked == lastEvent.op = "markerClick" /\ Len(Stack(lastEvent.f)) > 1

C4_CycleNextAdvances ==
    [][ /\ (Settled /\ lastEvent'.op = "cycleNext") =>
              /\ selectedOverlapIndex'
                    = (selectedOverlapIndex + 1) % Len(overlappingFeatures)
              /\ selectedTableRow' = overlappingFeatures[selectedOverlapIndex' + 1]
              /\ Settled' => CurrentFeature' = selectedTableRow'
        /\ (~Settled /\ lastEvent.op = "cycleNext") =>
              /\ Settled'
              /\ selectedTableRow' = selectedTableRow
              /\ CurrentFeature' = selectedTableRow ]_vars

C4_Witness ==
    /\ lastEvent.op = "cycleNext"
    /\ Settled
    /\ Len(overlappingFeatures) > 2
    /\ CurrentFeature = overlappingFeatures[1]

\* C5 as stated: after a click on a marker whose anchor exactly N >= 2
\* displayed features share within the tolerance, the overlap group has N
\* features, and N presses of the next button bring the current index and
\* the selected feature back to what they were right after the click.
C5_CycleClosesAfterN ==
    (Settled /\ clickRun.f # Null) =>
        /\ clickRun.cycles = 0 => Len(overlappingFeatures) = clickRun.size
        /\ clickRun.cycles = clickRun.size =>
              /\ selectedOverlapIndex = clickRun.index
              /\ selectedTableRow = clickRun.feature

\* The popup is closed and nothing is selected.
Idle ==
    /\ overlappingFeatures = << >>
    /\ selectedOverlapIndex = 0
    /\ selectedMarker = Null
    /\ selectedTableRow = Null

\* C6: from the popup's close on, both right after the handler and after the
\* effects it triggers, the group is empty, the index 0, the selected marker
\* null and the host's selection null.
C6_CloseIsIdle == lastEvent.op = "closePopup" => Idle

C6_Witness == lastEvent.op = "closePopup" /\ Settled /\ Len(filteredData) > 1

\* The host has just changed the selectedFeature prop to a feature.
SelectionChanged ==
    /\ lastEvent.op \in {"rowClick", "markerClick", "cycleNext"}
    /\ ~Settled
    /\ selectedTableRow # Null

\* C7: when the selectedFeature prop changes to a feature F with an anchor,
\* the commit that follows replaces the group, whatever it held, by the
\* displayed features within the tolerance of F's anchor in dataset order
\* (by the empty group when F is alone) and the index by F's position (0
\* when alone); for an F without anchor it leaves both as they were.
C7_GroupFollowsSelection ==
    [][ SelectionChanged =>
          LET F == selectedTableRow
          IN  /\ Settled'
              /\ IF Anchor(F) = << >>
                    THEN UNCHANGED << overlappingFeatures, selectedOverlapIndex >>
                  ELSE IF Len(Stack(F)) > 1
                    THEN /\ overlappingFeatures' = Stack(F)
                         /\ overlappingFeatures'[selectedOverlapIndex' + 1] = F
                  ELSE /\ overlappingFeatures' = << >>
                       /\ selectedOverlapIndex' = 0 ]_vars

C7_Witness ==
    /\ lastEvent.op = "rowClick"
    /\ Settled
    /\ Len(overlappingFeatures) > 1
    /\ selectedOverlapIndex > 0
    /\ overlappingFeatures[selectedOverlapIndex + 1] = lastEvent.f

\* C8: when a feature with an anchor becomes the selected feature, the
\* commit that follows settles with the viewport's longitude and latitude on
\* the anchor and its zoom the larger of the previous zoom and 14.
C8_SelectionPans ==
    [][ (SelectionChanged /\ Anchor(selectedTableRow) # << >>) =>
          /\ Settled'
          /\ viewState'.longitude = Anchor(selectedTableRow)[1]
          /\ viewState'.latitude = Anchor(selectedTableRow)[2]
          /\ viewState'.zoom = Max(viewState.zoom, 14) ]_vars

C8_Witness ==
    /\ lastEvent.op \in {"rowClick", "markerClick", "cycleNext"}
    /\ Settled
    /\ selectedTableRow # Null
    /\ Anchor(selectedTableRow) # << >>
    /\ viewState.longitude = Anchor(selectedTableRow)[1]
    /\ viewState.latitude = Anchor(selectedTableRow)[2]
    /\ viewState.zoom > 14

\* C9 as stated: while a feature with an anchor is selected, an event that
\* re-runs the bounds computation (a change of the city or neighborhood
\* filter, or the arrival of the boundary file when it yields highlighted
\* towns) still ends, once the effects settle, with the viewport centered on
\* the anchor of the selected feature.
C9_SelectionPanIsLast ==
    ( /\ Settled
      /\ selectedTableRow # Null
      /\ Anchor(selectedTableRow) # << >>
      /\ \/ lastEvent.op \in {"selectCity", "selectNeighborhood"}
         \/ lastEvent.op = "loadGeoJSON" /\ highlightedCities # << >> )
    => /\ viewState.longitude = Anchor(selectedTableRow)[1]
       /\ viewState.latitude = Anchor(selectedTableRow)[2]

\* C10 as stated: when a neighborhood has been selected whose polygon is
\* found in the loaded neighborhood data and no feature is selected, then
\* once the effects settle the viewport is at the center of the bounding box
\* of that polygon, at the larger of the computed zoom and 14.
C10_NeighborhoodZoomWins ==
    ( /\ Settled
      /\ lastEvent.op = "selectNeighborhood"
      /\ selectedTableRow = Null
      /\ selectedNeighborhood # S_Empty
      /\ NeighborhoodPolygon # << >> )
    => LET bounds == calculateBounds(extractCoordinates(NeighborhoodPolygon[1].geometry))
       IN  viewState = [bounds EXCEPT !.zoom = Max(bounds.zoom, 14)]

\* The highlighted regions whose town is the selected city.
SelectedCityPolygon ==
    SelectSeq(highlightedCities, LAMBDA i :
        LET town == Prop(MassachusettsFeatures[i].properties, "town")
        IN  town # S_Empty /\ trim(toUpperCase(town)) = trim(toUpperCase(selectedCity)))

\* C11: with a city selected, no neighborhood and no feature selected, and
\* the city's polygon among the highlighted regions, the viewport on which
\* the effects of a filter selection, of the feature load or of the boundary
\* file's arrival settle is calculateBounds of that polygon's coordinates,
\* whatever else is highlighted.
C11_CityZoomWins ==
    ( /\ Settled
      /\ lastEvent.op \in {"selectCity", "selectNeighborhood", "loadData", "loadGeoJSON"}
      /\ selectedCity # S_Empty
      /\ selectedNeighborhood = S_Empty
      /\ selectedTableRow = Null
      /\ SelectedCityPolygon # << >> )
    => viewState = calculateBounds(
           extractCoordinates(MassachusettsFeatures[SelectedCityPolygon[1]].geometry))

C11_Witness ==
    /\ Settled
    /\ lastEvent.op = "selectCity"
    /\ Len(highlightedCities) > 1
    /\ selectedNeighborhood = S_Empty
    /\ selectedTableRow = Null
    /\ SelectedCityPolygon # << >>
    /\ viewState = calculateBounds(
           extractCoordinates(MassachusettsFeatures[SelectedCityPolygon[1]].geometry))

\* The coordinates of every highlighted region's polygon.
HighlightedCoordinates ==
    Flatten([k \in 1..Len(highlightedCities) |->
        extractCoordinates(MassachusettsFeatures[highlightedCities[k]].geometry)])

\* The coordinates of the displayed Point features.
DisplayedPoints ==
    LET points == SelectSeq(filteredData, LAMBDA f : Pool[f].geometry.type = "Point")
    IN  [k \in 1..Len(points) |-> Pool[points[k]].geometry.coordinates]

\* Nothing is selected: no city, no neighborhood, no feature.
NothingSelected ==
    /\ selectedCity = S_Empty
    /\ selectedNeighborhood = S_Empty
    /\ selectedTableRow = Null

\* The viewport the fallback rules give: the highlighted regions' bounds, or
\* else the displayed points' bounds.
AtFallbackBounds ==
    IF highlightedCities # << >>
      THEN viewState = calculateBounds(HighlightedCoordinates)
      ELSE DisplayedPoints # << >> => viewState = calculateBounds(DisplayedPoints)

NoCoordinates ==
    /\ (selectedNeighborhood = S_Empty \/ NeighborhoodPolygon = << >>)
    /\ (selectedCity = S_Empty \/ SelectedCityPolygon = << >>)
    /\ highlightedCities = << >>
    /\ DisplayedPoints = << >>

ViewportInputs ==
    << data, selectedCity, selectedNeighborhood, selectedType, selectedTableRow,
       massachusettsGeoJSON, bostonNeighborhoods, cambridgeNeighborhoods,
       somervilleNeighborhoods, highlightedCities >>

\* C14 as stated: the settled viewport is a function of the data, the
\* boundary data, the filter selection and the selected feature, whatever
\* the history; in particular two settled states one step apart that agree
\* on all of these (the ends of a run and of its extension by an event that
\* changes none of them, such as a move of the map) have one viewport.
C14_ViewportIsFunction ==
    [][ (Settled /\ Settled' /\ ViewportInputs' = ViewportInputs)
          => viewState' = viewState ]_vars

\* The cities of the displayed features, upper-cased and trimmed.
DisplayedCities ==
    { trim(toUpperCase(c)) :
        c \in { Or2(Prop(Pool[f].properties, "city"), Prop(Pool[f].properties, "City")) :
                  f \in Range(filteredData) } \ {S_Empty} }

\* The boundary features whose town is a city of the displayed data.
MatchingTowns ==
    SelectSeq([i \in 1..Len(MassachusettsFeatures) |-> i], LAMBDA i :
        trim(toUpperCase(Prop(MassachusettsFeatures[i].properties, "town")))
            \in DisplayedCities)

\* C15 as stated: in every settled state after the boundary file has
\* loaded, the highlighted set is exactly the boundary features whose town
\* (upper-cased, trimmed) is a city of the displayed data, and is empty when
\* there is none, also when a filter leaves no feature displayed.
C15_HighlightedMatchesDisplayed ==
    (Settled /\ massachusettsGeoJSON) => highlightedCities = MatchingTowns

\* The position of f in the sequence s of distinct features.
PositionIn(s, f) == CHOOSE i \in 1..Len(s) : s[i] = f

\* sub holds only elements of full, each at most once, in the order of full.
IsSubsequence(sub, full) ==
    /\ \A i \in 1..Len(sub) : sub[i] \in Range(full)
    /\ \A i, j \in 1..Len(sub) :
          i < j => /\ sub[i] # sub[j]
                   /\ PositionIn(full, sub[i]) < PositionIn(full, sub[j])

\* C16: for every data set and every filter selection, the displayed
\* (filtered) list is a subsequence of the loaded data: only loaded features,
\* each at most once, in their original relative order.
C16_DisplayedIsSubsequence == IsSubsequence(filteredData, data)

\* The city and the neighborhood of a feature, under either spelling of the key.
CityOf(props) == Or2(Prop(props, "city"), Prop(props, "City"))

FeatureCity(f) == CityOf(Pool[f].properties)

NeighborhoodOf(props) == Or2(Prop(props, "neighborhood"), Prop(props, "Neighborhood"))

FeatureNeighborhood(f) == NeighborhoodOf(Pool[f].properties)

\* A value trimmed and case-folded.
CaseFold(s) == toUpperCase(trim(s))

OnlyCityActive ==
    selectedCity # S_Empty /\ selectedNeighborhood = S_Empty /\ selectedType = ""

OnlyNeighborhoodActive ==
    selectedNeighborhood # S_Empty /\ selectedCity = S_Empty /\ selectedType = ""

\* C17: with a city (resp. neighborhood) filter active, a feature passes it
\* if and only if its city (resp. neighborhood), trimmed and case-folded,
\* equals the selected value trimmed and case-folded, for every value the
\* facet dropdown can offer.
C17_FilterIgnoresCaseAndSpace ==
    \A f \in Range(data) :
        /\ OnlyCityActive =>
              (f \in Range(filteredData)
                 <=> CaseFold(FeatureCity(f)) = CaseFold(selectedCity))
        /\ OnlyNeighborhoodActive =>
              (f \in Range(filteredData)
                 <=> CaseFold(FeatureNeighborhood(f)) = CaseFold(selectedNeighborhood))

\* The free-text type of a feature, under either spelling of the key.
TypeOf(props) == Or2(Prop(props, "type"), Prop(props, "Type"))

FeatureType(f) == TypeOf(Pool[f].properties)

\* C18 as stated: a feature that lacks the property a filter tests (no city,
\* no neighborhood, or no type) is excluded from the displayed data whenever
\* that filter is active with any non-empty value.
C18_MissingPropertyExcluded ==
    \A f \in Range(data) :
        /\ (FeatureCity(f) = S_Empty /\ selectedCity # S_Empty)
              => f \notin Range(filteredData)
        /\ (FeatureNeighborhood(f) = S_Empty /\ selectedNeighborhood # S_Empty)
              => f \notin Range(filteredData)
        /\ (FeatureType(f) = S_Empty /\ selectedType # "")
              => f \notin Range(filteredData)

\* C18, amended: a feature without city (resp. neighborhood) is excluded
\* under every city (resp. neighborhood) filter; a feature without type is
\* excluded under the type filters 'both', 'production' and 'presentation',
\* and under 'unknown' it is displayed when it passes the other two filters.
C18_MissingPropertyExcludedButUnknown ==
    \A f \in Range(data) :
        /\ (FeatureCity(f) = S_Empty /\ selectedCity # S_Empty)
              => f \notin Range(filteredData)
        /\ (FeatureNeighborhood(f) = S_Empty /\ selectedNeighborhood # S_Empty)
              => f \notin Range(filteredData)
        /\ (FeatureType(f) = S_Empty /\ selectedType \notin {"", "unknown"})
              => f \notin Range(filteredData)
        /\ (/\ FeatureType(f) = S_Empty
            /\ selectedType = "unknown"
            /\ selectedCity = S_Empty
            /\ selectedNeighborhood = S_Empty)
              => f \in Range(filteredData)

\* A feature with neither city nor type is loaded, next to a feature that is
\* displayed, under a city filter.
C18_Witness ==
    /\ Settled
    /\ selectedCity # S_Empty
    /\ filteredData # << >>
    /\ \E f \in Range(data) : FeatureCity(f) = S_Empty /\ FeatureType(f) = S_Empty

\* The free-text type of f mentions the word, whatever the case.
Mentions(f, word) == includes(toLowerCase(FeatureType(f)), word)

\* The class the type text stands for.
ClassOf(f) ==
    CASE Mentions(f, S_production) /\ Mentions(f, S_presentation) -> "both"
      [] Mentions(f, S_production) /\ ~Mentions(f, S_presentation) -> "production"
      [] Mentions(f, S_presentation) /\ ~Mentions(f, S_production) -> "presentation"
      [] OTHER -> "unknown"

\* C19: getSpaceType classifies a feature from its free-text type,
\* case-insensitively: 'both' when the text contains both words, 'production'
\* or 'presentation' when it contains only that word, 'unknown' otherwise
\* (a missing type included); and with a type filter active a feature is
\* displayed only if its class equals the selected type.
C19_TypeClassAndFilter ==
    \A f \in Range(data) :
        /\ getSpaceType(Pool[f].properties) = ClassOf(f)
        /\ (selectedType # "" /\ f \in Range(filteredData))
              => ClassOf(f) = selectedType

\* A type filter displays a feature whose type is written in another case
\* and hides a loaded feature of another class.
C19_Witness ==
    /\ Settled
    /\ selectedType # ""
    /\ \E f \in Range(filteredData) : FeatureType(f) # toLowerCase(FeatureType(f))
    /\ \E g \in Range(data) : g \notin Range(filteredData) /\ ClassOf(g) = "both"

\* C20: filtering is idempotent: applying the same selection to the already
\* filtered list yields that same list.
C20_FilterIdempotent ==
    applySort(applyFilters(filteredData, selectedCity, selectedNeighborhood,
                           selectedType), sortConfig) = filteredData

\* A selection that displays some of the loaded features and hides others.
C20_Witness ==
    /\ Settled
    /\ selectedCity # S_Empty
    /\ selectedType # ""
    /\ filteredData # << >>
    /\ Len(filteredData) < Len(data)

C22_FailedLoadIsFinal ==
    /\ fetches["features"] = "failed" => (data = << >> /\ loading = FALSE)
    /\ fetches["features"] = "ok" => loading = FALSE

\* The fetch has failed and the user has used the filter panel since.
C22_Witness ==
    /\ fetches["features"] = "failed"
    /\ lastEvent.op = "selectType"
    /\ selectedType # ""
    /\ Settled

\* C23: the feature store is populated at most once and is otherwise
\* immutable: the loaded list changes only when the load completes, from the
\* empty list, and no user action (selects, marker or row click, cycling,
\* closing the popup, sorting the table) changes it or the order of its
\* elements; only the filtered view changes.
C23_StoreWrittenOnce ==
    [][ data' # data => /\ lastEvent'.op = "loadData"
                        /\ data = << >>
                        /\ fetches["features"] = "pending" ]_vars

\* The table has been sorted into another order than the loaded one.
C23_Witness ==
    /\ lastEvent.op = "sort"
    /\ Len(data) > 1
    /\ Len(filteredData) = Len(data)
    /\ filteredData # data

\* C24: if GET /api/mapbox-token succeeds the token of the response is used;
\* if it fails and a build-time token exists, that token is used; if neither
\* is available, a configuration error is surfaced to the renderer as a
\* persistent error state and the map stays unrendered.
C24_TokenResolution ==
    /\ (fetches["token"] = "ok" /\ mapboxToken # "") => mapboxToken = "server"
    /\ (fetches["token"] = "failed" /\ mapboxToken # "") => mapboxToken = "env"
    /\ (fetches["token"] = "failed" /\ mapboxToken = "")
          => (~MapRendered /\ mapError # "" /\ ~LoadingPlaceholderShown)

\* The slot of a city's neighborhood set.
NeighborhoodSlot(c) ==
    CASE c = "Boston" -> bostonNeighborhoods
      [] c = "Cambridge" -> cambridgeNeighborhoods
      [] c = "Somerville" -> somervilleNeighborhoods

ReferenceRequests == NeighborhoodCities \cup {"geojson"}

\* C25: the failure of any one reference fetch (a neighborhood set or the
\* boundary file) changes neither the loaded data, the filter selection, the
\* facets nor the filtered view, and does not prevent another reference data
\* set whose fetch succeeds from being stored: when a reference fetch
\* settles, the App state is unchanged, the boundary file is stored iff its
\* own fetch succeeded and, the three neighborhood fetches settled, each set
\* is stored iff its own fetch succeeded.
C25_ReferenceFailuresContained ==
    [][ (\E r \in ReferenceRequests : fetches'[r] # fetches[r]) =>
          /\ UNCHANGED << appVars, sortConfig >>
          /\ massachusettsGeoJSON' = (fetches'["geojson"] = "ok")
          /\ (\A d \in NeighborhoodCities : fetches'[d] # "pending")
                => \A d \in NeighborhoodCities :
                      NeighborhoodSlot(d)' = (fetches'[d] = "ok") ]_vars

\* The boundary file and one neighborhood set have failed, another set is
\* stored, with data loaded and a city selected.
C25_Witness ==
    /\ fetches["geojson"] = "failed"
    /\ fetches["Cambridge"] = "failed"
    /\ bostonNeighborhoods
    /\ data # << >>
    /\ selectedCity # S_Empty

\* C26: the reference fetches race independently and each updates its own
\* piece of state on its own completion: as soon as one neighborhood fetch
\* completes successfully its slot is set, whether the other neighborhood
\* fetches are still pending or not.
C26_SlotSetOnOwnCompletion ==
    \A c \in NeighborhoodCities : fetches[c] = "ok" => NeighborhoodSlot(c)

\* The least and the greatest value of a non-empty coordinate list on the
\* axis k (1 is the longitude, 2 the latitude), and the larger of the spans.
AxisMin(coordinates, k) ==
    CHOOSE x \in {coordinates[i][k] : i \in 1..Len(coordinates)} :
        \A i \in 1..Len(coordinates) : x <= coordinates[i][k]

AxisMax(coordinates, k) ==
    CHOOSE x \in {coordinates[i][k] : i \in 1..Len(coordinates)} :
        \A i \in 1..Len(coordinates) : x >= coordinates[i][k]

AxisSpan(coordinates, k) == AxisMax(coordinates, k) - AxisMin(coordinates, k)

SpanOf(coordinates) ==
    IF AxisSpan(coordinates, 1) >= AxisSpan(coordinates, 2)
      THEN AxisSpan(coordinates, 1) ELSE AxisSpan(coordinates, 2)

\* The zoom of a span, in units of 0.00001 degree.
ZoomOfSpan(span) ==
    CASE span > 80000 -> 9
      [] span > 40000 /\ span <= 80000 -> 10
      [] span > 20000 /\ span <= 40000 -> 11
      [] span < 2000 -> 14
      [] span >= 2000 /\ span < 5000 -> 13
      [] OTHER -> 12

\* C27: calculateBounds returns null for an empty coordinate list; otherwise
\* its center is the midpoint of the minimum and maximum of each axis and its
\* zoom is decided by the larger of the two spans: 9 above 0.8, 10 in
\* (0.4, 0.8], 11 in (0.2, 0.4], 14 below 0.02, 13 in [0.02, 0.05), 12
\* otherwise; a single coordinate gives itself as center and zoom 14.
C27_BoundsCenterAndZoom ==
    probe.op = "calculateBounds" =>
        LET coordinates == probe.args[1]
            bounds == probe.result
            n == Len(coordinates)
        IN  IF n = 0 THEN bounds = << >>
            ELSE /\ 2 * bounds.longitude
                      = AxisMin(coordinates, 1) + AxisMax(coordinates, 1)
                 /\ 2 * bounds.latitude
                      = AxisMin(coordinates, 2) + AxisMax(coordinates, 2)
                 /\ bounds.zoom = ZoomOfSpan(SpanOf(coordinates))
                 /\ n = 1 => bounds = [longitude |-> coordinates[1][1],
                                        latitude |-> coordinates[1][2],
                                        zoom |-> 14]

\* calculateBounds has been called on two coordinates whose larger span is
\* exactly 0.8 degree.
C27_Witness ==
    /\ probe.op = "calculateBounds"
    /\ Len(probe.args[1]) = 2
    /\ SpanOf(probe.args[1]) = 80000
    /\ probe.result.zoom = 10

\* Both differences of two whole coordinates are strictly within 0.0001
\* degree (10 units).
WithinTolerance(a, b) ==
    /\ a[1] - b[1] < 10 /\ b[1] - a[1] < 10
    /\ a[2] - b[2] < 10 /\ b[2] - a[2] < 10

\* C28: areCoordinatesSame(a, b) is true exactly when both the absolute
\* longitude difference and the absolute latitude difference are strictly
\* below the tolerance 0.0001, and false when either coordinate is missing;
\* [1,2] and [1.00005,2.00004] are the same, [1,2] and [1.001,2] are not; the
\* relation is reflexive and symmetric.
C28_SameWithinTolerance ==
    probe.op = "areCoordinatesSame" =>
        LET a == probe.args[1]
            b == probe.args[2]
        IN  /\ (Len(a) < 2 \/ Len(b) < 2) => probe.result = FALSE
            /\ (Len(a) = 2 /\ Len(b) = 2) => probe.result = WithinTolerance(a, b)
            /\ probe.result = areCoordinatesSame(b, a)
            /\ Len(a) = 2 => areCoordinatesSame(a, a)
            /\ (a = <<100000, 200000>> /\ b = <<100005, 200004>>) => probe.result = TRUE
            /\ (a = <<100000, 200000>> /\ b = <<100100, 200000>>) => probe.result = FALSE

\* areCoordinatesSame has been called on [1,2] and [1.00005,2.00004].
C28_Witness ==
    /\ probe.op = "areCoordinatesSame"
    /\ probe.args = << <<100000, 200000>>, <<100005, 200004>> >>
    /\ probe.result = TRUE

NoFilterActive ==
    selectedCity = S_Empty /\ selectedNeighborhood = S_Empty /\ selectedType = ""

\* C29: after the load completes, data excludes Watertown and Hingham: no
\* feature whose city (trimmed, case-insensitive) is Watertown or Hingham is
\* in data, so every feature displayed with no filter active belongs to a
\* city offered in the city facet.
C29_ExcludedTownsNotLoaded ==
    /\ \A f \in Range(data) : CaseFold(FeatureCity(f)) \notin {S_WATERTOWN, S_HINGHAM}
    /\ NoFilterActive =>
          \A f \in Range(filteredData) : FeatureCity(f) \in Range(cities)

\* The row has no value in the sorted column.
NoColumnValue(f) == Prop(Pool[f].properties, sortConfig.key) = S_Empty

\* C30: when the table is sorted by a column, the rows whose value for that
\* column is null, undefined or the empty string come after all rows with a
\* value, in ascending and in descending direction, and sorting does not
\* change which features are displayed.
C30_EmptyValuesLast ==
    sortConfig.key # "" =>
        /\ \A i, j \in 1..Len(filteredData) :
              (i < j /\ NoColumnValue(filteredData[i])) => NoColumnValue(filteredData[j])
        /\ Len(filteredData)
              = Len(applyFilters(data, selectedCity, selectedNeighborhood, selectedType))
        /\ Range(filteredData)
              = Range(applyFilters(data, selectedCity, selectedNeighborhood, selectedType))

\* The table is sorted in descending direction and shows rows with and
\* without a value in the column.
C30_Witness ==
    /\ Settled
    /\ sortConfig.key # ""
    /\ sortConfig.direction = "desc"
    /\ Len(filteredData) > 2
    /\ \E f \in Range(filteredData) : NoColumnValue(f)
    /\ \E f, g \in Range(filteredData) :
          /\ ~NoColumnValue(f) /\ ~NoColumnValue(g)
          /\ Prop(Pool[f].properties, sortConfig.key) # Prop(Pool[g].properties, sortConfig.key)


\* C31: in every state reached by marker clicks, row clicks, presses of the
\* next button, closes of the popup and filter changes, the overlap group
\* has no feature or at least two, the current index is 0 when the group is
\* empty and a position of the group otherwise, and the group is empty
\* when no feature is selected (neither by the host nor as the marker).
C31_OverlapWellFormed ==
    /\ Len(overlappingFeatures) # 1
    /\ overlappingFeatures = << >> => selectedOverlapIndex = 0
    /\ overlappingFeatures # << >> =>
          selectedOverlapIndex \in 0..(Len(overlappingFeatures) - 1)
    /\ (selectedTableRow = Null /\ selectedMarker = Null) =>
          overlappingFeatures = << >>

\* A filter change has left a group with the selected feature beyond its
\* first position.
C31_Witness ==
    /\ lastEvent.op \in {"selectCity", "selectNeighborhood"}
    /\ Settled
    /\ Len(overlappingFeatures) > 1
    /\ selectedOverlapIndex > 0
    /\ Len(filteredData) < Len(data)

C33_PopupDisplaysSelected ==
    (Settled /\ selectedTableRow # Null /\ PopupShown) =>
        CurrentFeature = selectedTableRow

\* C34 as stated: once the effects have settled, the host's selected feature
\* and the feature held as the selected marker are displayed features; a
\* filter change that removes the selected feature from the displayed data
\* leaves nothing selected and no popup.
C34_SelectedIsDisplayed ==
    Settled =>
        /\ selectedTableRow # Null => selectedTableRow \in Range(filteredData)
        /\ selectedMarker # Null => selectedMarker \in Range(filteredData)
        /\ PopupShown => PopupFeature \in Range(filteredData)

\* C35 as stated: with the displayed data unchanged, a press of the next
\* button and the commit that follows it leave the overlap group as it was,
\* its features and their order (only the index and the selected feature
\* change), also when features of the group are within the tolerance of the
\* clicked feature and not of each other.
C35_GroupStableWhileCycled ==
    [][ /\ (Settled /\ lastEvent'.op = "cycleNext") =>
              overlappingFeatures' = overlappingFeatures
        /\ (~Settled /\ lastEvent.op = "cycleNext") =>
              overlappingFeatures' = overlappingFeatures ]_vars

\* C36 as stated: when a city offered by the city facet is selected, with no
\* neighborhood and no type filter, the displayed list is not empty and
\* holds every loaded feature whose raw city property is that value.
C36_OfferedCitySelectsSomething ==
    (OnlyCityActive /\ selectedCity \in Range(cities)) =>
        /\ filteredData # << >>
        /\ \A f \in Range(data) :
              Prop(Pool[f].properties, "city") = selectedCity
                  => f \in Range(filteredData)

\* C37 as stated: when a city is selected, the 'Spaces in <city>' metric
\* equals the 'Total Spaces' metric, the number of displayed features; and
\* when a neighborhood is selected, so does 'Spaces in <neighborhood>'.
C37_SpacesInEqualsTotal ==
    /\ selectedCity # S_Empty => SpacesInCity = totalSpaces
    /\ selectedNeighborhood # S_Empty => SpacesInNeighborhood = totalSpaces

\* The number of commits the pending effects can still take: the
\* clear-neighborhood effect, when it acts, re-runs every effect of the
\* neighborhood; the highlight effect, when it acts, re-runs the bounds and
\* city zoom effects; these two set no state.
CascadeRank ==
    IF "clearNeighborhood" \in pending /\ ClearNeighborhoodEffect THEN 3
    ELSE IF "highlight" \in pending THEN 2
    ELSE IF pending # {} THEN 1
    ELSE 0

\* C38: after any event (the load completing or failing, a filter selection,
\* a marker or row click, a press of next, a close of the popup, the boundary
\* file arriving) every commit leaves strictly fewer commits to run, of at
\* most three: the cascade of effects and state updates stops, and no effect
\* re-triggers itself.
C38_CascadeStops ==
    [][ ~Settled => CascadeRank' < CascadeRank ]_vars

\* A city select has left the longest cascade to run: the neighborhood is
\* about to be cleared, and the boundary file is there for the highlight
\* effect to act on.
C38_Witness ==
    /\ lastEvent.op = "selectCity"
    /\ CascadeRank = 3
    /\ massachusettsGeoJSON
    /\ highlightedCities # << >>

\* The four type filters of the panel.
TypeFilters == {"production", "presentation", "both", "unknown"}

\* The list displayed under the selected city and neighborhood with the
\* type filter `type` ("" for none).
DisplayedOfType(type) == applyFilters(data, selectedCity, selectedNeighborhood, type)

\* C39: under the selected city and neighborhood, each feature displayed
\* with no type filter is displayed under exactly one of the four type
\* filters: the four lists are pairwise disjoint, their sizes sum to the
\* size of the list with no type filter, and the list displayed under the
\* selected type filter is one of them.
C39_TypeFiltersPartition ==
    LET none == DisplayedOfType("")
        production == Range(DisplayedOfType("production"))
        presentation == Range(DisplayedOfType("presentation"))
        both == Range(DisplayedOfType("both"))
        unknown == Range(DisplayedOfType("unknown"))
        lists == << production, presentation, both, unknown >>
    IN  /\ \A f \in Range(none) :
              Cardinality({ i \in 1..4 : f \in lists[i] }) = 1
        /\ \A i, j \in 1..4 : i # j => lists[i] \cap lists[j] = {}
        /\ Cardinality(production) + Cardinality(presentation)
             + Cardinality(both) + Cardinality(unknown) = Len(none)
        /\ selectedType # "" => filteredData = DisplayedOfType(selectedType)

\* A type filter is selected that displays some of the features of the
\* selected city and leaves others of three types out.
C39_Witness ==
    /\ selectedType \in TypeFilters
    /\ selectedCity # S_Empty
    /\ filteredData # << >>
    /\ Cardinality({ t \in TypeFilters : DisplayedOfType(t) # << >> }) = 3
====
